---- MODULE Spec2Model ----
(***************************************************************************)
(* A model of PntsPointClouds.create                                       *)
(* (src/src/contentProcessing/pointClouds/PntsPointClouds.ts): the decode  *)
(* pipeline that turns a PNTS feature table, its binary and a batch table  *)
(* into a point cloud, with the precedence between the Draco-decoded       *)
(* attributes and the raw fields of the feature table.                     *)
(*                                                                         *)
(* With it, a model of TilesetSourceFs                                     *)
(* (src/src/tilesetData/TilesetSourceFs.ts), a tileset source over a       *)
(* directory with its open/close protocol, and of TilesetObjectUpgrader    *)
(* (src/src/tilesetProcessing/upgrade/TilesetObjectUpgrader.ts), which     *)
(* upgrades a parsed tileset in place.                                     *)
(*                                                                         *)
(* Optional values (T | undefined) are sequences: <<>> is undefined and    *)
(* <<v>> is the value v.  An Iterable is the record of the arguments of    *)
(* the lazy view the code builds (buffer, offset, types, point count) and  *)
(* of the function mapped over it.                                         *)
(***************************************************************************)
EXTENDS Integers, Sequences, FiniteSets, TLC

VARIABLES call, decoder, source, upgrader

vars == <<call, decoder, source, upgrader>>

\* ------------------------------------------------------------------ bounds

\* The largest POINTS_LENGTH of a feature table.
MaxPoints == 2

\* The largest BATCH_LENGTH of a feature table.
MaxBatchLength == 2

\* The number of calls of create that run in one process at a time.
MaxCalls == 2

\* The number of calls made on one TilesetSourceFs.
MaxSourceCalls == 3

\* The number of times upgradeTilesetObject is applied to one tileset.
MaxApplications == 2

\* ------------------------------------------------------- optional values

None == <<>>

Some(v) == <<v>>

IsSome(o) == o # <<>>

Get(o) == o[1]

\* ---------------------------------------------------- JavaScript conditions

\* if (x) for a string | undefined: undefined and the empty string are falsy.
Truthy(o) == IsSome(o) /\ Get(o) # ""

\* --------------------------------------------------------- TilesetSourceFs

\* The directory names that are passed to open: strings, the empty one too.
DirectoryNames == {"", "data", "other"}

\* The keys that are passed to getValue.
Keys == {"tileset.json", "missing.b3dm"}

\* The file system: the files below each directory, relative to it.
Files ==
  [ d \in DirectoryNames |-> IF d = "other" THEN {} ELSE {"tileset.json"} ]

AlreadyOpened == "Source already opened"

NotOpened == "Source is not opened. Call 'open' first."

\* new TilesetSourceFs(): fullInputName is undefined.  calls is the history
\* of the calls made on the source: the method, its argument, the message of
\* the TilesetError it threw (or none), what it returned, and fullInputName
\* when it ended.
NewTilesetSourceFs == [ fullInputName |-> None, calls |-> <<>> ]

\* The source after a call that ended with the given fullInputName.
Called(op, argument, error, result, fullInputName) ==
  [ fullInputName |-> fullInputName,
    calls |-> Append(source.calls,
                     [ op |-> op, argument |-> argument, error |-> error,
                       result |-> result, fullInputName |-> fullInputName ]) ]

\* TilesetSourceFs.open
open(fullInputName) ==
  /\ Len(source.calls) < MaxSourceCalls
  /\ IF Truthy(source.fullInputName)
       THEN source' = Called("open", Some(fullInputName), Some(AlreadyOpened), None,
                             source.fullInputName)
       ELSE source' = Called("open", Some(fullInputName), None, None,
                             Some(fullInputName))
  /\ UNCHANGED <<call, decoder, upgrader>>

\* TilesetSourceFs.getKeys: the files below the directory, relative to it.
getKeys ==
  /\ Len(source.calls) < MaxSourceCalls
  /\ IF ~Truthy(source.fullInputName)
       THEN source' = Called("getKeys", None, Some(NotOpened), None,
                             source.fullInputName)
       ELSE source' = Called("getKeys", None, None,
                             Some(Files[Get(source.fullInputName)]),
                             source.fullInputName)
  /\ UNCHANGED <<call, decoder, upgrader>>

\* TilesetSourceFs.getValue: the data of the file, undefined if there is none.
getValue(key) ==
  /\ Len(source.calls) < MaxSourceCalls
  /\ IF ~Truthy(source.fullInputName)
       THEN source' = Called("getValue", Some(key), Some(NotOpened), None,
                             source.fullInputName)
       ELSE LET fullFileName == <<Get(source.fullInputName), key>>
            IN  IF key \notin Files[Get(source.fullInputName)]
                  THEN source' = Called("getValue", Some(key), None, None,
                                        source.fullInputName)
                  ELSE source' = Called("getValue", Some(key), None,
                                        Some(fullFileName), source.fullInputName)
  /\ UNCHANGED <<call, decoder, upgrader>>

\* TilesetSourceFs.close
close ==
  /\ Len(source.calls) < MaxSourceCalls
  /\ IF ~Truthy(source.fullInputName)
       THEN source' = Called("close", None, Some(NotOpened), None,
                             source.fullInputName)
       ELSE source' = Called("close", None, None, None, None)
  /\ UNCHANGED <<call, decoder, upgrader>>

\* ---------------------------------------------------- TilesetObjectUpgrader

\* A conversion that exchanges uppercase and lowercase letters.
swapCase(s) ==
  CASE s = "add" -> "ADD"
    [] s = "ADD" -> "add"
    [] s = "Add" -> "aDD"
    [] s = "aDD" -> "Add"
    [] s = "replace" -> "REPLACE"
    [] s = "REPLACE" -> "replace"
    [] OTHER -> s

\* String.prototype.toUpperCase, on the values of refine.
toUpperCase(s) ==
  CASE s = "add" -> "ADD"
    [] s = "Add" -> "ADD"
    [] s = "replace" -> "REPLACE"
    [] OTHER -> s

\* Extensions.remove: the array without the name, undefined if nothing is left.
removeExtension(array, extensionName) ==
  IF ~IsSome(array)
    THEN None
    ELSE LET kept == SelectSeq(Get(array), LAMBDA e : e # extensionName)
         IN  IF kept = <<>> THEN None ELSE Some(kept)

\* Extensions.removeExtensionUsed: the name is no longer used, nor required.
removeExtensionUsed(tileset, extensionName) ==
  [tileset EXCEPT !.extensionsUsed = removeExtension(@, extensionName),
                  !.extensionsRequired = removeExtension(@, extensionName)]

\* The tile at the end of a path of child indices from the root.
RECURSIVE TileAt(_, _)
TileAt(tile, tilePath) ==
  IF tilePath = <<>>
    THEN tile
    ELSE TileAt(Get(tile.children)[Head(tilePath)], Tail(tilePath))

\* The root with another tile at the end of the path.
RECURSIVE WithTileAt(_, _, _)
WithTileAt(tile, tilePath, newTile) ==
  IF tilePath = <<>>
    THEN newTile
    ELSE [tile EXCEPT !.children =
            Some([Get(@) EXCEPT ![Head(tilePath)] =
                    WithTileAt(@, Tail(tilePath), newTile)])]

\* Tiles.traverseExplicit with a callback that returns true: the tiles in the
\* order in which they are popped from the stack, the children of a tile
\* being pushed in their order.
RECURSIVE traverseStack(_, _)
traverseStack(root, stack) ==
  IF stack = <<>>
    THEN <<>>
    ELSE LET current == stack[Len(stack)]
             tile == TileAt(root, current)
             children == IF IsSome(tile.children) THEN Get(tile.children) ELSE <<>>
         IN  <<current>>
               \o traverseStack(root,
                    SubSeq(stack, 1, Len(stack) - 1)
                      \o [ k \in 1..Len(children) |-> Append(current, k) ])

traverseExplicit(root) == traverseStack(root, << <<>> >>)

\* this.logCallback(message)
logCallback(u, message) == [u EXCEPT !.log = Append(@, message)]

\* TilesetObjectUpgrader.upgradeAssetVersionNumber
upgradeAssetVersionNumber(u, targetVersion) ==
  IF u.tileset.asset.version # targetVersion
    THEN [logCallback(u, <<"  Upgrading asset version from",
                           u.tileset.asset.version, "to", targetVersion>>)
            EXCEPT !.tileset.asset.version = targetVersion]
    ELSE u

\* TilesetObjectUpgrader.upgradeContentUrlToUri, on tile.content (index 0) or
\* on tile.contents[index] of the tile at the path.
upgradeContentUrlToUri(u, tilePath, index) ==
  LET tile == TileAt(u.tileset.root, tilePath)
      content == IF index = 0 THEN Get(tile.content) ELSE Get(tile.contents)[index]
      WithContent(newContent) ==
        IF index = 0
          THEN [tile EXCEPT !.content = Some(newContent)]
          ELSE [tile EXCEPT !.contents = Some([Get(@) EXCEPT ![index] = newContent])]
  IN  IF Truthy(content.uri)
        THEN u
        ELSE IF Truthy(content.url)
          THEN [logCallback(u, <<"  Renaming 'url' property for content",
                                 Get(content.url), "to 'uri'">>)
                  EXCEPT !.tileset.root =
                    WithTileAt(@, tilePath,
                               WithContent([ uri |-> content.url, url |-> None ]))]
          ELSE logCallback(u,
                 <<"  The content does not have a 'uri' property (and no legacy 'url' property)">>)

\* for (const content of tile.contents) this.upgradeContentUrlToUri(content)
RECURSIVE upgradeContentsUrlToUri(_, _, _)
upgradeContentsUrlToUri(u, tilePath, index) ==
  IF index > Len(Get(TileAt(u.tileset.root, tilePath).contents))
    THEN u
    ELSE upgradeContentsUrlToUri(upgradeContentUrlToUri(u, tilePath, index),
                                 tilePath, index + 1)

\* The callback of upgradeEachContentUrlToUri, on the tile at the path.
upgradeTileContentUrlToUri(u, tilePath) ==
  LET tile == TileAt(u.tileset.root, tilePath)
      afterContent == IF IsSome(tile.content)
                        THEN upgradeContentUrlToUri(u, tilePath, 0)
                        ELSE u
  IN  IF IsSome(tile.contents)
        THEN upgradeContentsUrlToUri(afterContent, tilePath, 1)
        ELSE afterContent

RECURSIVE upgradeEachContentUrlToUriAlong(_, _)
upgradeEachContentUrlToUriAlong(u, tilePaths) ==
  IF tilePaths = <<>>
    THEN u
    ELSE upgradeEachContentUrlToUriAlong(
           upgradeTileContentUrlToUri(u, Head(tilePaths)), Tail(tilePaths))

\* TilesetObjectUpgrader.upgradeEachContentUrlToUri
upgradeEachContentUrlToUri(u) ==
  upgradeEachContentUrlToUriAlong(u, traverseExplicit(u.tileset.root))

\* The callback of upgradeRefineValues without the test for ADD and REPLACE.
upgradeRefineValueOfEveryTile(u, tilePath) ==
  LET tile == TileAt(u.tileset.root, tilePath)
  IN  IF Truthy(tile.refine)
        THEN LET oldValue == Get(tile.refine)
                 newValue == toUpperCase(oldValue)
             IN  [logCallback(u, <<"  Renaming 'refine' value from", oldValue,
                                   "to", newValue>>)
                    EXCEPT !.tileset.root =
                      WithTileAt(@, tilePath, [tile EXCEPT !.refine = Some(newValue)])]
        ELSE u

\* The callback of upgradeRefineValues, on the tile at the path.
upgradeRefineValue(u, tilePath) ==
  LET tile == TileAt(u.tileset.root, tilePath)
  IN  IF Truthy(tile.refine) /\ Get(tile.refine) # "ADD" /\ Get(tile.refine) # "REPLACE"
        THEN LET oldValue == Get(tile.refine)
                 newValue == toUpperCase(oldValue)
             IN  [logCallback(u, <<"  Renaming 'refine' value from", oldValue,
                                   "to", newValue>>)
                    EXCEPT !.tileset.root =
                      WithTileAt(@, tilePath, [tile EXCEPT !.refine = Some(newValue)])]
        ELSE u

RECURSIVE upgradeRefineValuesAlong(_, _)
upgradeRefineValuesAlong(u, tilePaths) ==
  IF tilePaths = <<>>
    THEN u
    ELSE upgradeRefineValuesAlong(upgradeRefineValue(u, Head(tilePaths)),
                                  Tail(tilePaths))

\* TilesetObjectUpgrader.upgradeRefineValues
upgradeRefineValues(u) ==
  upgradeRefineValuesAlong(u, traverseExplicit(u.tileset.root))

\* new TilesetObjectUpgrader(upgradeOptions, logCallback), and the tileset it
\* is applied to.  log is what the log callback has received; steps is the
\* history of the applications: the tileset and the log at the construction
\* and after each of the four conditional steps.
NewUpgrader(upgradeOptions, tileset) ==
  [ upgradeOptions |-> upgradeOptions,
    tileset |-> tileset,
    log |-> <<>>,
    pc |-> "constructed",
    applications |-> 0,
    steps |-> << [ step |-> "constructed", tileset |-> tileset, log |-> <<>> ] >> ]

\* The order of the conditional steps of upgradeTilesetObject.
FirstStep == "assetVersion"

\* upgradeTilesetObject with the content step before the refine step.
NextStepContentFirst(step) ==
  CASE step = "assetVersion" -> "contentUrlToUri"
    [] step = "contentUrlToUri" -> "refineCase"
    [] step = "refineCase" -> "extensionDeclarations"
    [] step = "extensionDeclarations" -> "returned"

NextStep(step) ==
  CASE step = "assetVersion" -> "refineCase"
    [] step = "refineCase" -> "contentUrlToUri"
    [] step = "contentUrlToUri" -> "extensionDeclarations"
    [] step = "extensionDeclarations" -> "returned"

\* The upgrader after a step of upgradeTilesetObject that left it as u.
Stepped(step, u) ==
  [u EXCEPT !.pc = NextStep(step),
            !.steps = Append(@, [ step |-> step, tileset |-> u.tileset,
                                  log |-> u.log ])]

\* upgradeTilesetObject is called on the tileset.
upgradeTilesetObject ==
  /\ upgrader.pc \in {"constructed", "returned"}
  /\ upgrader.applications < MaxApplications
  /\ upgrader' = [upgrader EXCEPT !.pc = FirstStep, !.applications = @ + 1]
  /\ UNCHANGED <<call, decoder, source>>

upgradeAssetVersionNumberStep ==
  /\ upgrader.pc = "assetVersion"
  /\ upgrader' =
       Stepped("assetVersion",
         IF Truthy(upgrader.upgradeOptions.upgradedAssetVersionNumber)
           THEN upgradeAssetVersionNumber(
                  logCallback(upgrader, <<"Upgrading asset version number">>),
                  Get(upgrader.upgradeOptions.upgradedAssetVersionNumber))
           ELSE upgrader)
  /\ UNCHANGED <<call, decoder, source>>

upgradeRefineCaseStep ==
  /\ upgrader.pc = "refineCase"
  /\ upgrader' =
       Stepped("refineCase",
         IF upgrader.upgradeOptions.upgradeRefineCase
           THEN upgradeRefineValues(
                  logCallback(upgrader, <<"Upgrading refine to be in uppercase">>))
           ELSE upgrader)
  /\ UNCHANGED <<call, decoder, source>>

upgradeContentUrlToUriStep ==
  /\ upgrader.pc = "contentUrlToUri"
  /\ upgrader' =
       Stepped("contentUrlToUri",
         IF upgrader.upgradeOptions.upgradeContentUrlToUri
           THEN upgradeEachContentUrlToUri(
                  logCallback(upgrader, <<"Upgrading content.url to content.uri">>))
           ELSE upgrader)
  /\ UNCHANGED <<call, decoder, source>>

upgradeExtensionDeclarationsStep ==
  /\ upgrader.pc = "extensionDeclarations"
  /\ upgrader' =
       Stepped("extensionDeclarations",
         IF upgrader.upgradeOptions.upgradeContentGltfExtensionDeclarations
           THEN [logCallback(upgrader, <<"Upgrading extension declarations">>)
                   EXCEPT !.tileset = removeExtensionUsed(@, "3DTILES_content_gltf")]
           ELSE upgrader)
  /\ UNCHANGED <<call, decoder, source>>

\* ------------------------------------------------- the tilesets to upgrade

Content(uri, url) == [ uri |-> uri, url |-> url ]

\* The contents of a parsed tileset JSON: uri and url are strings, which may
\* be empty, or are not there.
Contents ==
  { Content(uri, url) : uri \in {None, Some(""), Some("a.b3dm")},
                        url \in {None, Some(""), Some("b.b3dm")} }

\* The contents with a uri or a legacy url that are not empty, or neither.
PlainContents ==
  { Content(Some("a.b3dm"), None), Content(None, Some("b.b3dm")),
    Content(Some("a.b3dm"), Some("b.b3dm")), Content(None, None) }

RefineValues ==
  { None, Some(""), Some("add"), Some("Add"), Some("ADD"), Some("replace"),
    Some("REPLACE") }

TileOf(refine, content, contents, children) ==
  [ refine |-> refine, content |-> content, contents |-> contents,
    children |-> children ]

\* The tile hierarchies that differ in refine: a root and up to two children.
RefineRoots ==
  LET leaves == { TileOf(r, Some(Content(Some("a.b3dm"), None)), None, None) :
                    r \in {None, Some("add"), Some("REPLACE")} }
  IN  { TileOf(r, None, None, children) :
          r \in RefineValues,
          children \in {None} \cup { Some(<<a>>) : a \in leaves }
                        \cup { Some(<<a, b>>) : a \in leaves, b \in leaves } }

\* The tile hierarchies that differ in their contents: a root with content
\* and contents, and up to one child.
ContentRoots ==
  LET leaves == { TileOf(None, Some(c), None, None) : c \in PlainContents }
  IN  { TileOf(Some("ADD"), content, contents, children) :
          content \in {None} \cup { Some(c) : c \in Contents },
          contents \in {None, Some(<<>>)}
                        \cup { Some(<<a, b>>) : a \in PlainContents, b \in PlainContents },
          children \in {None} \cup { Some(<<a>>) : a \in leaves } }

\* A few tile hierarchies with refine values and contents to upgrade.
MixedRoots ==
  { TileOf(Some("add"), Some(Content(None, Some("b.b3dm"))), None,
           Some(<<TileOf(Some("replace"), None,
                         Some(<<Content(None, Some("b.b3dm"))>>), None)>>)),
    TileOf(Some("REPLACE"), Some(Content(Some("a.b3dm"), None)), None, None),
    TileOf(None, None, None,
           Some(<<TileOf(Some("ADD"), Some(Content(None, None)), None, None),
                  TileOf(Some("Add"), Some(Content(None, Some(""))), None, None)>>)) }

TilesetOf(version, extensionsUsed, extensionsRequired, root) ==
  [ asset |-> [ version |-> version ],
    extensionsUsed |-> extensionsUsed,
    extensionsRequired |-> extensionsRequired,
    root |-> root ]

UpgradeOptionsOf(version, refineCase, contentUrlToUri, extensionDeclarations) ==
  [ upgradedAssetVersionNumber |-> version,
    upgradeRefineCase |-> refineCase,
    upgradeContentUrlToUri |-> contentUrlToUri,
    upgradeContentGltfExtensionDeclarations |-> extensionDeclarations ]

\* The upgraders and their tilesets: every combination of the options on a
\* few tilesets, and the refine and the content upgrades on every hierarchy.
Upgraders ==
  { NewUpgrader(UpgradeOptionsOf(target, refineCase, contentUrlToUri, extensionDeclarations),
                TilesetOf(version, extensions[1], extensions[2], root)) :
      target \in {None, Some(""), Some("1.1")},
      refineCase \in BOOLEAN, contentUrlToUri \in BOOLEAN,
      extensionDeclarations \in BOOLEAN,
      version \in {"1.0", "1.1"},
      extensions \in { <<None, None>>,
                       <<Some(<<"3DTILES_content_gltf">>), Some(<<"3DTILES_content_gltf">>)>>,
                       <<Some(<<"3DTILES_content_gltf", "3DTILES_metadata">>), None>> },
      root \in MixedRoots }
  \cup
  { NewUpgrader(UpgradeOptionsOf(Some("1.1"), TRUE, contentUrlToUri, TRUE),
                TilesetOf("1.0", Some(<<"3DTILES_content_gltf">>), None, root)) :
      contentUrlToUri \in BOOLEAN, root \in RefineRoots }
  \cup
  { NewUpgrader(UpgradeOptionsOf(Some("1.1"), refineCase, TRUE, TRUE),
                TilesetOf("1.0", Some(<<"3DTILES_content_gltf">>), None, root)) :
      refineCase \in BOOLEAN, root \in ContentRoots }

\* An upgrader that is not applied.
IdleUpgrader ==
  NewUpgrader(UpgradeOptionsOf(None, FALSE, FALSE, FALSE),
              TilesetOf("1.1", None, None, TileOf(None, None, None, None)))

\* ------------------------------------------------- TileTableData (tables)

convertLegacyComponentTypeToComponentType(legacyComponentType) ==
  CASE legacyComponentType = "BYTE" -> "INT8"
    [] legacyComponentType = "UNSIGNED_BYTE" -> "UINT8"
    [] legacyComponentType = "SHORT" -> "INT16"
    [] legacyComponentType = "UNSIGNED_SHORT" -> "UINT16"
    [] legacyComponentType = "INT" -> "INT32"
    [] legacyComponentType = "UNSIGNED_INT" -> "UINT32"
    [] legacyComponentType = "FLOAT" -> "FLOAT32"
    [] legacyComponentType = "DOUBLE" -> "FLOAT64"

convertLegacyTypeToType(legacyType) == legacyType

\* TileTableData.createNumericArrayIterable / createNumericScalarIterable:
\* a lazy view of numPoints elements of the given layout in a buffer.
createNumericIterable(legacyType, legacyComponentType, binary, byteOffset, numPoints) ==
  [ binary |-> binary,
    byteOffset |-> byteOffset,
    legacyType |-> legacyType,
    legacyComponentType |-> legacyComponentType,
    numPoints |-> numPoints,
    mapped |-> <<>> ]

\* Iterables.map: the same view with a function applied to each element.
IterablesMap(iterable, mapper) ==
  [iterable EXCEPT !.mapped = Append(@, mapper)]

\* The buffer that create receives as featureTableBinary.
FeatureTableBinary == <<"featureTableBinary">>

\* The buffer of one Draco-decoded attribute (attributeData).
DracoAttributeData(name) == <<"dracoAttributeData", name>>

\* ------------------------------------------------------------ the inputs

\* The attribute names with a fixed meaning in the Draco decoder result.
StandardDracoNames == {"POSITION", "NORMAL", "RGB", "RGBA", "BATCH_ID"}

\* The batch table properties of the model: one stored in the binary body,
\* one given inline.
BatchTablePropertyNames == {"intensity", "classification"}

\* Where each field of the model's feature tables starts in the binary.
ByteOffsetOf(field) ==
  CASE field = "POSITION" -> 0
    [] field = "POSITION_QUANTIZED" -> 100
    [] field = "NORMAL" -> 200
    [] field = "NORMAL_OCT16P" -> 300
    [] field = "RGBA" -> 400
    [] field = "RGB" -> 500
    [] field = "RGB565" -> 600
    [] field = "BATCH_ID" -> 700

BinaryBodyOffset(field, present) ==
  IF present THEN Some([byteOffset |-> ByteOffsetOf(field)]) ELSE None

\* The values of the inline fields of the model's feature tables.
RtcCenterValue == <<1, 2, 3>>

VolumeOffsetValue == <<10, 20, 30>>

VolumeScaleValue == <<4, 5, 6>>

ConstantRgbaValue == <<255, 0, 128, 64>>

InlineValue(value, present) == IF present THEN Some(value) ELSE None

\* The component types a BATCH_ID descriptor is given in the model:
\* "" is a descriptor without componentType.
BatchIdKinds == {"absent", "", "UNSIGNED_BYTE", "UNSIGNED_INT"}

BatchIdOf(kind) ==
  IF kind = "absent"
    THEN None
    ELSE Some([ byteOffset |-> ByteOffsetOf("BATCH_ID"),
                componentType |-> IF kind = "" THEN None ELSE Some(kind) ])

\* The 3DTILES_draco_point_compression extension object of a feature table
\* that lists the given properties.
DracoExtension(names) ==
  [ properties |-> [n \in names |-> 0], byteOffset |-> 0, byteLength |-> 8 ]

\* featureTable.extensions: absent, without the Draco extension, with a
\* Draco extension that lists every standard property, with one that lists
\* POSITION alone, or with one that lists POSITION and a property of its own.
ExtensionKinds == {"absent", "other", "draco", "dracoPosition", "dracoCustom"}

ExtensionsOf(kind) ==
  CASE kind = "absent" -> None
    [] kind = "other" -> Some([draco |-> None])
    [] kind = "draco" -> Some([draco |-> Some(DracoExtension(StandardDracoNames))])
    [] kind = "dracoPosition" -> Some([draco |-> Some(DracoExtension({"POSITION"}))])
    [] kind = "dracoCustom" ->
         Some([draco |-> Some(DracoExtension({"POSITION", "intensity"}))])

\* A feature table from the shape s: which fields it has.
FeatureTableOf(s) ==
  [ POINTS_LENGTH |-> s.POINTS_LENGTH,
    POSITION |-> BinaryBodyOffset("POSITION", s.POSITION),
    POSITION_QUANTIZED |-> BinaryBodyOffset("POSITION_QUANTIZED", s.POSITION_QUANTIZED),
    QUANTIZED_VOLUME_OFFSET |-> InlineValue(VolumeOffsetValue, s.QUANTIZED_VOLUME_OFFSET),
    QUANTIZED_VOLUME_SCALE |-> InlineValue(VolumeScaleValue, s.QUANTIZED_VOLUME_SCALE),
    NORMAL |-> BinaryBodyOffset("NORMAL", s.NORMAL),
    NORMAL_OCT16P |-> BinaryBodyOffset("NORMAL_OCT16P", s.NORMAL_OCT16P),
    RGBA |-> BinaryBodyOffset("RGBA", s.RGBA),
    RGB |-> BinaryBodyOffset("RGB", s.RGB),
    RGB565 |-> BinaryBodyOffset("RGB565", s.RGB565),
    CONSTANT_RGBA |-> InlineValue(ConstantRgbaValue, s.CONSTANT_RGBA),
    BATCH_ID |-> BatchIdOf(s.BATCH_ID),
    BATCH_LENGTH |-> s.BATCH_LENGTH,
    RTC_CENTER |-> InlineValue(RtcCenterValue, s.RTC_CENTER),
    extensions |-> ExtensionsOf(s.extensions) ]

\* The batch tables of the model: "none" has no Draco extension, "draco"
\* lists both of its properties in its Draco extension.
BatchTableKinds == {"none", "draco"}

BatchTableOf(kind) ==
  [ properties |->
      [ n \in BatchTablePropertyNames |->
          IF n = "intensity"
            THEN [ binaryBodyReference |-> TRUE, type |-> "SCALAR",
                   componentType |-> "FLOAT" ]
            ELSE [ binaryBodyReference |-> FALSE, type |-> "",
                   componentType |-> "" ] ],
    dracoProperties |->
      [n \in (IF kind = "draco" THEN BatchTablePropertyNames ELSE {}) |-> 1] ]

\* ------------------------------------------------------ DefaultPointCloud

\* new DefaultPointCloud()
NewPointCloud ==
  [ attributes |-> [n \in {} |-> 0], globalPosition |-> None, globalColor |-> None ]

\* pointCloud.getAttributeValues(name): the values, or undefined.
getAttributeValues(pointCloud, name) ==
  IF name \in DOMAIN pointCloud.attributes
    THEN Some(pointCloud.attributes[name].values)
    ELSE None

\* What one call of create has done so far: its point cloud, the error it
\* threw (if any), the calls it made and the feature table fields it read.
NewRun == [ pointCloud |-> NewPointCloud, error |-> None, log |-> <<>>, reads |-> {} ]

Failed(r) == IsSome(r.error)

Throw(r, kind, message) ==
  [r EXCEPT !.error = Some([kind |-> kind, message |-> message])]

Logged(r, op, name, from) ==
  [r EXCEPT !.log = Append(@, [op |-> op, name |-> name, from |-> from])]

Read(r, fn, fields) ==
  [r EXCEPT !.reads = @ \cup {<<fn, f>> : f \in fields}]

StoreAttribute(r, name, type, componentType, values) ==
  [r EXCEPT !.pointCloud.attributes =
     [ n \in (DOMAIN @) \cup {name} |->
         IF n = name
           THEN [type |-> type, componentType |-> componentType, values |-> values]
           ELSE @[n] ]]

\* pointCloud.addAttribute: fails if the name is already present.
addAttribute(r, op, name, type, componentType, values, from) ==
  IF name \in DOMAIN r.pointCloud.attributes
    THEN Throw(Logged(r, op, name, from), "Error", "attribute already present")
    ELSE StoreAttribute(Logged(r, op, name, from), name, type, componentType, values)

\* pointCloud.setPositions / setNormals / setNormalizedLinearColors: the
\* well-known slots are the attributes POSITION, NORMAL and COLOR_0.  What a
\* setter does with a slot that is already filled is not stated: it either
\* replaces the values (overwrite) or fails like addAttribute.
setSlot(r, op, name, values, from, overwrite) ==
  IF name \in DOMAIN r.pointCloud.attributes /\ overwrite
    THEN StoreAttribute(Logged(r, op, name, from), name,
                        IF name = "COLOR_0" THEN "VEC4" ELSE "VEC3", "FLOAT32", values)
    ELSE addAttribute(r, op, name,
                      IF name = "COLOR_0" THEN "VEC4" ELSE "VEC3", "FLOAT32", values, from)

setPositions(r, positions, from, overwrite) ==
  setSlot(r, "setPositions", "POSITION", positions, from, overwrite)

setNormals(r, normals, from, overwrite) ==
  setSlot(r, "setNormals", "NORMAL", normals, from, overwrite)

setNormalizedLinearColors(r, colors, from, overwrite) ==
  setSlot(r, "setNormalizedLinearColors", "COLOR_0", colors, from, overwrite)

setNormalizedLinearGlobalColor(r, globalColor) ==
  [Logged(r, "setNormalizedLinearGlobalColor", "globalColor", "raw")
     EXCEPT !.pointCloud.globalColor = globalColor]

setGlobalPosition(r, globalPosition) ==
  [Logged(r, "setGlobalPosition", "globalPosition", "raw")
     EXCEPT !.pointCloud.globalPosition = globalPosition]

\* -------------------------------------------- PntsPointClouds: decoders

\* The result of a function that returns a value or throws.
Returned(value) == [error |-> None, value |-> Some(value)]

ReturnedUndefined == [error |-> None, value |-> None]

Thrown(kind, message) ==
  [error |-> Some([kind |-> kind, message |-> message]), value |-> None]

\* TileTableData.obtainNumberArray / obtainRtcCenter of an inline array.
obtainNumberArray(binary, property) == Get(property)

createPositionsInternal(binary, byteOffset, numPoints) ==
  createNumericIterable("VEC3", "FLOAT", binary, byteOffset, numPoints)

createQuantizedPositionsInternal(binary, byteOffset, numPoints) ==
  createNumericIterable("VEC3", "UNSIGNED_SHORT", binary, byteOffset, numPoints)

createNormalsInternal(binary, byteOffset, numPoints) ==
  createNumericIterable("VEC3", "FLOAT", binary, byteOffset, numPoints)

createOctEncodedNormalsInternal(binary, byteOffset, numPoints) ==
  createNumericIterable("VEC2", "UNSIGNED_BYTE", binary, byteOffset, numPoints)

createColorsStandardRGBInternal(binary, byteOffset, numPoints) ==
  createNumericIterable("VEC3", "UNSIGNED_BYTE", binary, byteOffset, numPoints)

createColorsStandardRGBAInternal(binary, byteOffset, numPoints) ==
  createNumericIterable("VEC4", "UNSIGNED_BYTE", binary, byteOffset, numPoints)

createColorsStandardRGB656Internal(binary, byteOffset, numPoints) ==
  createNumericIterable("SCALAR", "UNSIGNED_SHORT", binary, byteOffset, numPoints)

createBatchIdsInternal(binary, byteOffset, legacyComponentType, numPoints) ==
  createNumericIterable("SCALAR", legacyComponentType, binary, byteOffset, numPoints)

\* The function input -> input * scale / 65535 + offset, by its parameters.
createDequantization(volumeOffset, volumeScale) ==
  <<"dequantization", volumeOffset, volumeScale>>

\* obtainQuantizationOffsetScale that asks for the offset only and takes a
\* unit scale when QUANTIZED_VOLUME_SCALE is missing.
obtainQuantizationOffsetScaleOffsetOnly(featureTable, featureTableBinary) ==
  IF ~IsSome(featureTable.QUANTIZED_VOLUME_OFFSET)
    THEN None
    ELSE Some([ offset |-> obtainNumberArray(featureTableBinary,
                                             featureTable.QUANTIZED_VOLUME_OFFSET),
                scale |-> IF IsSome(featureTable.QUANTIZED_VOLUME_SCALE)
                            THEN obtainNumberArray(featureTableBinary,
                                                   featureTable.QUANTIZED_VOLUME_SCALE)
                            ELSE <<1, 1, 1>> ])

obtainQuantizationOffsetScale(featureTable, featureTableBinary) ==
  IF ~IsSome(featureTable.QUANTIZED_VOLUME_OFFSET)
    THEN None
    ELSE IF ~IsSome(featureTable.QUANTIZED_VOLUME_SCALE)
      THEN None
      ELSE Some([ offset |-> obtainNumberArray(featureTableBinary,
                                               featureTable.QUANTIZED_VOLUME_OFFSET),
                  scale |-> obtainNumberArray(featureTableBinary,
                                              featureTable.QUANTIZED_VOLUME_SCALE) ])

\* The feature table fields obtainQuantizationOffsetScale reads.
obtainQuantizationOffsetScaleReads(featureTable) ==
  {"QUANTIZED_VOLUME_OFFSET"}
    \cup (IF IsSome(featureTable.QUANTIZED_VOLUME_OFFSET)
            THEN {"QUANTIZED_VOLUME_SCALE"} ELSE {})

\* createPositions with the two position fields looked at in the other order.
createPositionsQuantizedFirst(featureTable, binary) ==
  LET numPoints == featureTable.POINTS_LENGTH
  IN  IF IsSome(featureTable.POSITION_QUANTIZED)
        THEN LET quantization == obtainQuantizationOffsetScale(featureTable, binary)
             IN  IF ~IsSome(quantization)
                   THEN Thrown("TileFormatError",
                               "POSITION_QUANTIZED without QUANTIZED_VOLUME_OFFSET and QUANTIZED_VOLUME_OFFSET")
                   ELSE Returned(IterablesMap(
                          createQuantizedPositionsInternal(
                            binary, Get(featureTable.POSITION_QUANTIZED).byteOffset,
                            numPoints),
                          createDequantization(<<0, 0, 0>>, Get(quantization).scale)))
        ELSE IF IsSome(featureTable.POSITION)
          THEN Returned(createPositionsInternal(
                 binary, Get(featureTable.POSITION).byteOffset, numPoints))
          ELSE Thrown("TileFormatError", "neither POSITION nor POSITION_QUANTIZED")

\* createPositions that returns no positions, instead of throwing, when the
\* feature table has neither position field.
createPositionsLenient(featureTable, binary) ==
  LET numPoints == featureTable.POINTS_LENGTH
  IN  IF IsSome(featureTable.POSITION)
        THEN Returned(createPositionsInternal(
               binary, Get(featureTable.POSITION).byteOffset, numPoints))
        ELSE IF IsSome(featureTable.POSITION_QUANTIZED)
          THEN LET quantization == obtainQuantizationOffsetScale(featureTable, binary)
               IN  IF ~IsSome(quantization)
                     THEN Thrown("TileFormatError",
                                 "POSITION_QUANTIZED without QUANTIZED_VOLUME_OFFSET and QUANTIZED_VOLUME_OFFSET")
                     ELSE Returned(IterablesMap(
                            createQuantizedPositionsInternal(
                              binary, Get(featureTable.POSITION_QUANTIZED).byteOffset,
                              numPoints),
                            createDequantization(<<0, 0, 0>>, Get(quantization).scale)))
          ELSE Returned(createPositionsInternal(binary, 0, 0))

createPositions(featureTable, binary) ==
  LET numPoints == featureTable.POINTS_LENGTH
  IN  IF IsSome(featureTable.POSITION)
        THEN Returned(createPositionsInternal(
               binary, Get(featureTable.POSITION).byteOffset, numPoints))
        ELSE IF IsSome(featureTable.POSITION_QUANTIZED)
          THEN LET quantization == obtainQuantizationOffsetScale(featureTable, binary)
               IN  IF ~IsSome(quantization)
                     THEN Thrown("TileFormatError",
                                 "POSITION_QUANTIZED without QUANTIZED_VOLUME_OFFSET and QUANTIZED_VOLUME_OFFSET")
                     ELSE Returned(IterablesMap(
                            createQuantizedPositionsInternal(
                              binary, Get(featureTable.POSITION_QUANTIZED).byteOffset,
                              numPoints),
                            createDequantization(<<0, 0, 0>>, Get(quantization).scale)))
          ELSE Thrown("TileFormatError", "neither POSITION nor POSITION_QUANTIZED")

\* The feature table fields createPositions reads.
createPositionsReads(featureTable) ==
  {"POINTS_LENGTH", "POSITION"}
    \cup (IF IsSome(featureTable.POSITION)
            THEN {}
            ELSE {"POSITION_QUANTIZED"}
                   \cup (IF IsSome(featureTable.POSITION_QUANTIZED)
                           THEN obtainQuantizationOffsetScaleReads(featureTable)
                           ELSE {}))

\* createNormals that looks at NORMAL_OCT16P before NORMAL.
createNormalsOctFirst(featureTable, binary) ==
  LET numPoints == featureTable.POINTS_LENGTH
  IN  IF IsSome(featureTable.NORMAL_OCT16P)
        THEN Returned(IterablesMap(
               createOctEncodedNormalsInternal(
                 binary, Get(featureTable.NORMAL_OCT16P).byteOffset, numPoints),
               <<"AttributeCompression.octDecode">>))
        ELSE IF IsSome(featureTable.NORMAL)
          THEN Returned(createNormalsInternal(
                 binary, Get(featureTable.NORMAL).byteOffset, numPoints))
          ELSE ReturnedUndefined

createNormals(featureTable, binary) ==
  LET numPoints == featureTable.POINTS_LENGTH
  IN  IF IsSome(featureTable.NORMAL)
        THEN Returned(createNormalsInternal(
               binary, Get(featureTable.NORMAL).byteOffset, numPoints))
        ELSE IF IsSome(featureTable.NORMAL_OCT16P)
          THEN Returned(IterablesMap(
                 createOctEncodedNormalsInternal(
                   binary, Get(featureTable.NORMAL_OCT16P).byteOffset, numPoints),
                 <<"AttributeCompression.octDecode">>))
          ELSE ReturnedUndefined

\* createNormalizedLinearColors that looks at RGB before RGBA.
createNormalizedLinearColorsRgbFirst(featureTable, binary) ==
  LET numPoints == featureTable.POINTS_LENGTH
  IN  IF IsSome(featureTable.RGB)
        THEN Returned(IterablesMap(
               createColorsStandardRGBInternal(
                 binary, Get(featureTable.RGB).byteOffset, numPoints),
               <<"Colors.standardRGBToNormalizedLinearRGBA">>))
        ELSE IF IsSome(featureTable.RGBA)
          THEN Returned(IterablesMap(
                 createColorsStandardRGBAInternal(
                   binary, Get(featureTable.RGBA).byteOffset, numPoints),
                 <<"Colors.standardRGBAToNormalizedLinearRGBA">>))
          ELSE IF IsSome(featureTable.RGB565)
            THEN Returned(IterablesMap(
                   createColorsStandardRGB656Internal(
                     binary, Get(featureTable.RGB565).byteOffset, numPoints),
                   <<"Colors.standardRGB565ToNormalizedLinearRGBA">>))
            ELSE ReturnedUndefined

createNormalizedLinearColors(featureTable, binary) ==
  LET numPoints == featureTable.POINTS_LENGTH
  IN  IF IsSome(featureTable.RGBA)
        THEN Returned(IterablesMap(
               createColorsStandardRGBAInternal(
                 binary, Get(featureTable.RGBA).byteOffset, numPoints),
               <<"Colors.standardRGBAToNormalizedLinearRGBA">>))
        ELSE IF IsSome(featureTable.RGB)
          THEN Returned(IterablesMap(
                 createColorsStandardRGBInternal(
                   binary, Get(featureTable.RGB).byteOffset, numPoints),
                 <<"Colors.standardRGBToNormalizedLinearRGBA">>))
          ELSE IF IsSome(featureTable.RGB565)
            THEN Returned(IterablesMap(
                   createColorsStandardRGB656Internal(
                     binary, Get(featureTable.RGB565).byteOffset, numPoints),
                   <<"Colors.standardRGB565ToNormalizedLinearRGBA">>))
            ELSE ReturnedUndefined

\* Colors.standardRGBAToNormalizedLinearRGBA of one color, by its argument.
standardRGBAToNormalizedLinearRGBA(rgba) ==
  <<"Colors.standardRGBAToNormalizedLinearRGBA", rgba>>

\* mayRequireAlpha that answers true for every table with RGBA or
\* CONSTANT_RGBA, whatever other colors the table has.
mayRequireAlphaWithoutPrecedence(featureTable) ==
  IsSome(featureTable.RGBA) \/ IsSome(featureTable.CONSTANT_RGBA)

\* Lines 154-170.
mayRequireAlpha(featureTable) ==
  IF IsSome(featureTable.RGBA)
    THEN TRUE
    ELSE IF IsSome(featureTable.RGB)
      THEN FALSE
      ELSE IF IsSome(featureTable.RGB565)
        THEN FALSE
        ELSE IF IsSome(featureTable.CONSTANT_RGBA)
          THEN TRUE
          ELSE FALSE

createGlobalNormalizedLinearColor(featureTable, binary) ==
  IF ~IsSome(featureTable.CONSTANT_RGBA)
    THEN None
    ELSE Some(standardRGBAToNormalizedLinearRGBA(
           obtainNumberArray(binary, featureTable.CONSTANT_RGBA)))

\* createBatchIds that decodes the batch ids without asking for BATCH_LENGTH.
createBatchIdsWithoutLength(featureTable, binary) ==
  LET batchId == featureTable.BATCH_ID
  IN  IF ~IsSome(batchId)
        THEN ReturnedUndefined
        ELSE LET numPoints == featureTable.POINTS_LENGTH
                 legacyComponentType ==
                   IF IsSome(Get(batchId).componentType)
                     THEN Get(Get(batchId).componentType)
                     ELSE "UNSIGNED_SHORT"
             IN  Returned(createBatchIdsInternal(
                   binary, Get(batchId).byteOffset, legacyComponentType, numPoints))

createBatchIds(featureTable, binary) ==
  LET batchId == featureTable.BATCH_ID
  IN  IF ~IsSome(batchId)
        THEN ReturnedUndefined
        ELSE IF featureTable.BATCH_LENGTH = None
          THEN Thrown("TileFormatError", "Found BATCH_ID but no BATCH_LENGTH")
          ELSE LET numPoints == featureTable.POINTS_LENGTH
                   legacyComponentType ==
                     IF IsSome(Get(batchId).componentType)
                       THEN Get(Get(batchId).componentType)
                       ELSE "UNSIGNED_SHORT"
               IN  Returned(createBatchIdsInternal(
                     binary, Get(batchId).byteOffset, legacyComponentType, numPoints))

\* obtainBatchIdComponentType with another default than createBatchIds.
obtainBatchIdComponentTypeByteDefault(featureTable) ==
  LET batchId == featureTable.BATCH_ID
  IN  IF ~IsSome(batchId)
        THEN None
        ELSE LET legacyComponentType ==
                   IF IsSome(Get(batchId).componentType)
                     THEN Get(Get(batchId).componentType)
                     ELSE "UNSIGNED_BYTE"
             IN  Some(convertLegacyComponentTypeToComponentType(legacyComponentType))

obtainBatchIdComponentType(featureTable) ==
  LET batchId == featureTable.BATCH_ID
  IN  IF ~IsSome(batchId)
        THEN None
        ELSE LET legacyComponentType ==
                   IF IsSome(Get(batchId).componentType)
                     THEN Get(Get(batchId).componentType)
                     ELSE "UNSIGNED_SHORT"
             IN  Some(convertLegacyComponentTypeToComponentType(legacyComponentType))

\* obtainGlobalPosition that takes RTC_CENTER as it is, without the change
\* from the Y-up to the Z-up axes.
obtainGlobalPositionNoSwap(featureTable, featureTableBinary) ==
  LET fromRtcCenter ==
        IF IsSome(featureTable.RTC_CENTER)
          THEN Some(obtainNumberArray(featureTableBinary, featureTable.RTC_CENTER))
          ELSE None
      quantization == obtainQuantizationOffsetScale(featureTable, featureTableBinary)
  IN  IF IsSome(quantization)
        THEN LET globalPosition ==
                   IF IsSome(fromRtcCenter) THEN Get(fromRtcCenter) ELSE <<0, 0, 0>>
                 offset == Get(quantization).offset
             IN  Some(<<globalPosition[1] + offset[1],
                        globalPosition[2] + offset[3],
                        globalPosition[3] + (-offset[2])>>)
        ELSE fromRtcCenter

\* obtainGlobalPosition that adds the quantization offset as it is, without
\* the change of axes.
obtainGlobalPositionOffsetUnswapped(featureTable, featureTableBinary) ==
  LET fromRtcCenter ==
        IF IsSome(featureTable.RTC_CENTER)
          THEN LET rtcCenter == obtainNumberArray(featureTableBinary, featureTable.RTC_CENTER)
               IN  Some(<<rtcCenter[1], rtcCenter[3], -rtcCenter[2]>>)
          ELSE None
      quantization == obtainQuantizationOffsetScale(featureTable, featureTableBinary)
  IN  IF IsSome(quantization)
        THEN LET globalPosition ==
                   IF IsSome(fromRtcCenter) THEN Get(fromRtcCenter) ELSE <<0, 0, 0>>
                 offset == Get(quantization).offset
             IN  Some(<<globalPosition[1] + offset[1],
                        globalPosition[2] + offset[2],
                        globalPosition[3] + offset[3]>>)
        ELSE fromRtcCenter

\* obtainGlobalPosition that starts from the origin instead of from undefined.
obtainGlobalPositionFromOrigin(featureTable, featureTableBinary) ==
  LET fromRtcCenter ==
        IF IsSome(featureTable.RTC_CENTER)
          THEN LET rtcCenter == obtainNumberArray(featureTableBinary, featureTable.RTC_CENTER)
               IN  <<rtcCenter[1], rtcCenter[3], -rtcCenter[2]>>
          ELSE <<0, 0, 0>>
      quantization == obtainQuantizationOffsetScale(featureTable, featureTableBinary)
  IN  IF IsSome(quantization)
        THEN LET offset == Get(quantization).offset
             IN  Some(<<fromRtcCenter[1] + offset[1],
                        fromRtcCenter[2] + offset[3],
                        fromRtcCenter[3] + (-offset[2])>>)
        ELSE Some(fromRtcCenter)

obtainGlobalPosition(featureTable, featureTableBinary) ==
  LET fromRtcCenter ==
        IF IsSome(featureTable.RTC_CENTER)
          THEN LET rtcCenter == obtainNumberArray(featureTableBinary, featureTable.RTC_CENTER)
               IN  Some(<<rtcCenter[1], rtcCenter[3], -rtcCenter[2]>>)
          ELSE None
      quantization == obtainQuantizationOffsetScale(featureTable, featureTableBinary)
  IN  IF IsSome(quantization)
        THEN LET globalPosition ==
                   IF IsSome(fromRtcCenter) THEN Get(fromRtcCenter) ELSE <<0, 0, 0>>
                 offset == Get(quantization).offset
             IN  Some(<<globalPosition[1] + offset[1],
                        globalPosition[2] + offset[3],
                        globalPosition[3] + (-offset[2])>>)
        ELSE fromRtcCenter

\* ------------------------------------------------- the Draco decoder result

\* The legacy component datatype the decoder reports for each property.
DracoComponentDatatype(name) ==
  CASE name = "BATCH_ID" -> "UNSIGNED_BYTE"
    [] name \in {"RGB", "RGBA"} -> "UNSIGNED_BYTE"
    [] OTHER -> "FLOAT"

\* One entry of a DracoDecoderResult.
DracoAttribute(name) ==
  [ attributeData |-> DracoAttributeData(name),
    attributeInfo |-> [ byteOffset |-> 0,
                        componentDatatype |-> DracoComponentDatatype(name) ] ]

\* The legacy component datatypes that the decoder can report for a property
\* of the batch table: it reports what the Draco data holds, which need not
\* be what the batch table declares.
DracoPropertyDatatypes == {"FLOAT", "UNSIGNED_SHORT"}

\* The DracoDecoderResult with the given properties.
DracoDecoderResultOf(names, propertyDatatype) ==
  [ n \in names |->
      IF n \in StandardDracoNames
        THEN DracoAttribute(n)
        ELSE [ DracoAttribute(n) EXCEPT
                 !.attributeInfo.componentDatatype = propertyDatatype ] ]

\* BatchTables.obtainDracoProperties: the properties of the batch table's
\* 3DTILES_draco_point_compression extension, or none.
obtainDracoProperties(batchTable) == batchTable.dracoProperties

\* The order in which the batch table lists its Draco properties.
DracoPropertyNameOrder == <<"intensity", "classification">>

\* BatchTables.obtainDracoPropertyNames
obtainDracoPropertyNames(batchTable) ==
  SelectSeq(DracoPropertyNameOrder,
            LAMBDA n : n \in DOMAIN obtainDracoProperties(batchTable))

\* TileTableData.isBatchTableBinaryBodyReference(batchTable[propertyName])
isBatchTableBinaryBodyReference(batchTable, propertyName) ==
  /\ propertyName \in DOMAIN batchTable.properties
  /\ batchTable.properties[propertyName].binaryBodyReference

\* Object.assign(allProperties, ...): the later source wins.
allPropertiesOf(featureTableExtension, batchTable) ==
  LET first == featureTableExtension.properties
      second == obtainDracoProperties(batchTable)
  IN  [ n \in (DOMAIN first) \cup (DOMAIN second) |->
          IF n \in DOMAIN second THEN second[n] ELSE first[n] ]

\* Lines 269-276 done on the feature table's own map: the properties of the
\* batch table are assigned into featureTableExtension.properties.
collectAllPropertiesInPlace(featureTableExtension, batchTable) ==
  [ allProperties |-> allPropertiesOf(featureTableExtension, batchTable),
    featureTableExtension |->
      [ featureTableExtension EXCEPT
          !.properties = allPropertiesOf(featureTableExtension, batchTable) ] ]

\* Lines 269-276: the union of the Draco properties is collected in a new
\* object; the extension object of the feature table is only read.
collectAllProperties(featureTableExtension, batchTable) ==
  [ allProperties |-> allPropertiesOf(featureTableExtension, batchTable),
    featureTableExtension |-> featureTableExtension ]

\* ------------------------------- PntsPointClouds.assignDracoDecodedAttributes

assignDracoPositions(r, numPoints, dracoDecoderResult, overwrite) ==
  IF Failed(r) \/ "POSITION" \notin DOMAIN dracoDecoderResult
    THEN r
    ELSE LET dracoPositions == dracoDecoderResult["POSITION"]
         IN  setPositions(r,
               createPositionsInternal(dracoPositions.attributeData,
                                       dracoPositions.attributeInfo.byteOffset, numPoints),
               "draco", overwrite)

assignDracoNormals(r, numPoints, dracoDecoderResult, overwrite) ==
  IF Failed(r) \/ "NORMAL" \notin DOMAIN dracoDecoderResult
    THEN r
    ELSE LET dracoNormals == dracoDecoderResult["NORMAL"]
         IN  setNormals(r,
               createNormalsInternal(dracoNormals.attributeData,
                                     dracoNormals.attributeInfo.byteOffset, numPoints),
               "draco", overwrite)

assignDracoRGB(r, numPoints, dracoDecoderResult, overwrite) ==
  IF Failed(r) \/ "RGB" \notin DOMAIN dracoDecoderResult
    THEN r
    ELSE LET dracoRGB == dracoDecoderResult["RGB"]
         IN  setNormalizedLinearColors(r,
               IterablesMap(
                 createColorsStandardRGBInternal(dracoRGB.attributeData,
                                                 dracoRGB.attributeInfo.byteOffset, numPoints),
                 <<"Colors.standardRGBToNormalizedLinearRGBA">>),
               "draco", overwrite)

assignDracoRGBA(r, numPoints, dracoDecoderResult, overwrite) ==
  IF Failed(r) \/ "RGBA" \notin DOMAIN dracoDecoderResult
    THEN r
    ELSE LET dracoRGBA == dracoDecoderResult["RGBA"]
         IN  setNormalizedLinearColors(r,
               IterablesMap(
                 createColorsStandardRGBAInternal(dracoRGBA.attributeData,
                                                  dracoRGBA.attributeInfo.byteOffset, numPoints),
                 <<"Colors.standardRGBAToNormalizedLinearRGBA">>),
               "draco", overwrite)

assignDracoBatchId(r, numPoints, dracoDecoderResult) ==
  IF Failed(r) \/ "BATCH_ID" \notin DOMAIN dracoDecoderResult
    THEN r
    ELSE LET dracoBatchId == dracoDecoderResult["BATCH_ID"]
             legacyComponentType == dracoBatchId.attributeInfo.componentDatatype
         IN  addAttribute(r, "addAttribute", "_FEATURE_ID_0", "SCALAR",
               convertLegacyComponentTypeToComponentType(legacyComponentType),
               createBatchIdsInternal(dracoBatchId.attributeData,
                                      dracoBatchId.attributeInfo.byteOffset,
                                      legacyComponentType, numPoints),
               "draco")

\* assignDracoProperty that adds the attribute whatever the batch table
\* entry of the property is.
assignDracoPropertyAlways(r, numPoints, dracoDecoderResult, batchTable, propertyName) ==
  IF Failed(r) \/ propertyName \notin DOMAIN dracoDecoderResult
    THEN r
    ELSE LET dracoProperty == dracoDecoderResult[propertyName]
             legacyType == batchTable.properties[propertyName].type
             legacyComponentType == dracoProperty.attributeInfo.componentDatatype
         IN  addAttribute(r, "addAttribute", propertyName,
               convertLegacyTypeToType(legacyType),
               convertLegacyComponentTypeToComponentType(legacyComponentType),
               createNumericIterable(legacyType, legacyComponentType,
                                     dracoProperty.attributeData,
                                     dracoProperty.attributeInfo.byteOffset, numPoints),
               "draco")

\* One round of the loop over the batch table's Draco property names.
assignDracoProperty(r, numPoints, dracoDecoderResult, batchTable, propertyName) ==
  IF Failed(r) \/ propertyName \notin DOMAIN dracoDecoderResult
    THEN r
    ELSE IF ~isBatchTableBinaryBodyReference(batchTable, propertyName)
      THEN r
      ELSE LET dracoProperty == dracoDecoderResult[propertyName]
               legacyType == batchTable.properties[propertyName].type
               legacyComponentType == dracoProperty.attributeInfo.componentDatatype
           IN  addAttribute(r, "addAttribute", propertyName,
                 convertLegacyTypeToType(legacyType),
                 convertLegacyComponentTypeToComponentType(legacyComponentType),
                 createNumericIterable(legacyType, legacyComponentType,
                                       dracoProperty.attributeData,
                                       dracoProperty.attributeInfo.byteOffset, numPoints),
                 "draco")

RECURSIVE assignDracoProperties(_, _, _, _, _)
assignDracoProperties(r, numPoints, dracoDecoderResult, batchTable, propertyNames) ==
  IF propertyNames = <<>>
    THEN r
    ELSE assignDracoProperties(
           assignDracoProperty(r, numPoints, dracoDecoderResult, batchTable,
                               Head(propertyNames)),
           numPoints, dracoDecoderResult, batchTable, Tail(propertyNames))

assignDracoDecodedAttributes(r, numPoints, dracoDecoderResult, batchTable, overwrite) ==
  assignDracoProperties(
    assignDracoBatchId(
      assignDracoRGBA(
        assignDracoRGB(
          assignDracoNormals(
            assignDracoPositions(r, numPoints, dracoDecoderResult, overwrite),
            numPoints, dracoDecoderResult, overwrite),
          numPoints, dracoDecoderResult, overwrite),
        numPoints, dracoDecoderResult, overwrite),
      numPoints, dracoDecoderResult),
    numPoints, dracoDecoderResult, batchTable, obtainDracoPropertyNames(batchTable))

\* ------------------------------------------------- PntsPointClouds.create

createNormalsReads(featureTable) ==
  {"POINTS_LENGTH", "NORMAL"}
    \cup (IF IsSome(featureTable.NORMAL) THEN {} ELSE {"NORMAL_OCT16P"})

createNormalizedLinearColorsReads(featureTable) ==
  {"POINTS_LENGTH", "RGBA"}
    \cup (IF IsSome(featureTable.RGBA)
            THEN {}
            ELSE {"RGB"} \cup (IF IsSome(featureTable.RGB) THEN {} ELSE {"RGB565"}))

createBatchIdsReads(featureTable) ==
  {"BATCH_ID"}
    \cup (IF IsSome(featureTable.BATCH_ID)
            THEN {"BATCH_LENGTH"}
                   \cup (IF IsSome(featureTable.BATCH_LENGTH) THEN {"POINTS_LENGTH"} ELSE {})
            ELSE {})

\* Lines 56-64: assign the Draco-decoded attributes, if there are any.
createAssignDraco(r, featureTable, batchTable, dracoDecoderResult, overwrite) ==
  IF IsSome(dracoDecoderResult)
    THEN assignDracoDecodedAttributes(r, featureTable.POINTS_LENGTH,
                                      Get(dracoDecoderResult), batchTable, overwrite)
    ELSE r

\* createAssignPositions without the check that the slot is still empty.
createAssignPositionsUnguarded(r, featureTable, overwrite) ==
  IF Failed(r)
    THEN r
    ELSE LET positions == createPositions(featureTable, FeatureTableBinary)
             called == Read(r, "createPositions", createPositionsReads(featureTable))
         IN  IF IsSome(positions.error)
               THEN [called EXCEPT !.error = positions.error]
               ELSE setPositions(called, Get(positions.value), "raw", overwrite)

\* createAssignPositions with the presence check made on the wrong slot.
createAssignPositionsWrongSlot(r, featureTable, overwrite) ==
  IF Failed(r) \/ IsSome(getAttributeValues(r.pointCloud, "NORMAL"))
    THEN r
    ELSE LET positions == createPositions(featureTable, FeatureTableBinary)
             called == Read(r, "createPositions", createPositionsReads(featureTable))
         IN  IF IsSome(positions.error)
               THEN [called EXCEPT !.error = positions.error]
               ELSE setPositions(called, Get(positions.value), "raw", overwrite)

\* Lines 71-78: assign the positions.
createAssignPositions(r, featureTable, overwrite) ==
  IF Failed(r) \/ IsSome(getAttributeValues(r.pointCloud, "POSITION"))
    THEN r
    ELSE LET positions == createPositions(featureTable, FeatureTableBinary)
             called == Read(r, "createPositions", createPositionsReads(featureTable))
         IN  IF IsSome(positions.error)
               THEN [called EXCEPT !.error = positions.error]
               ELSE setPositions(called, Get(positions.value), "raw", overwrite)

\* Lines 80-89: assign the normals.
createAssignNormals(r, featureTable, overwrite) ==
  IF Failed(r) \/ IsSome(getAttributeValues(r.pointCloud, "NORMAL"))
    THEN r
    ELSE LET normals == createNormals(featureTable, FeatureTableBinary)
             called == Read(r, "createNormals", createNormalsReads(featureTable))
         IN  IF IsSome(normals.value)
               THEN setNormals(called, Get(normals.value), "raw", overwrite)
               ELSE called

\* Lines 91-100: assign the colors.
createAssignColors(r, featureTable, overwrite) ==
  IF Failed(r) \/ IsSome(getAttributeValues(r.pointCloud, "COLOR_0"))
    THEN r
    ELSE LET colors == createNormalizedLinearColors(featureTable, FeatureTableBinary)
             called == Read(r, "createNormalizedLinearColors",
                            createNormalizedLinearColorsReads(featureTable))
         IN  IF IsSome(colors.value)
               THEN setNormalizedLinearColors(called, Get(colors.value), "raw", overwrite)
               ELSE called

\* Lines 102-120: assign the batch IDs as the _FEATURE_ID_0 attribute.
createAssignBatchIds(r, featureTable) ==
  IF Failed(r) \/ IsSome(getAttributeValues(r.pointCloud, "_FEATURE_ID_0"))
    THEN r
    ELSE LET batchIds == createBatchIds(featureTable, FeatureTableBinary)
             called == Read(r, "createBatchIds", createBatchIdsReads(featureTable))
         IN  IF IsSome(batchIds.error)
               THEN [called EXCEPT !.error = batchIds.error]
               ELSE IF IsSome(batchIds.value)
                 THEN LET componentType == obtainBatchIdComponentType(featureTable)
                      IN  IF IsSome(componentType)
                            THEN addAttribute(called, "addAttribute", "_FEATURE_ID_0",
                                              "SCALAR", Get(componentType),
                                              Get(batchIds.value), "raw")
                            ELSE called
                 ELSE called

\* createAssignGlobalColor that stores CONSTANT_RGBA as the color of every
\* point instead of as the global color.
createAssignGlobalColorPerPoint(r, featureTable) ==
  IF Failed(r) \/ IsSome(getAttributeValues(r.pointCloud, "COLOR_0"))
    THEN r
    ELSE LET globalColor ==
               createGlobalNormalizedLinearColor(featureTable, FeatureTableBinary)
             called == Read(r, "createGlobalNormalizedLinearColor", {"CONSTANT_RGBA"})
         IN  IF IsSome(globalColor)
               THEN setNormalizedLinearColors(called,
                      IterablesMap(
                        createNumericIterable("VEC4", "UNSIGNED_BYTE", FeatureTableBinary,
                                              0, featureTable.POINTS_LENGTH),
                        <<"Colors.standardRGBAToNormalizedLinearRGBA">>),
                      "raw", FALSE)
               ELSE called

\* createAssignGlobalColor without the check that there is no other color.
createAssignGlobalColorUnguarded(r, featureTable) ==
  IF Failed(r)
    THEN r
    ELSE setNormalizedLinearGlobalColor(
           Read(r, "createGlobalNormalizedLinearColor", {"CONSTANT_RGBA"}),
           createGlobalNormalizedLinearColor(featureTable, FeatureTableBinary))

\* createAssignGlobalColor that takes colors of zero points for no colors.
createAssignGlobalColorIfNoPoints(r, featureTable) ==
  IF Failed(r) \/ ( /\ IsSome(getAttributeValues(r.pointCloud, "COLOR_0"))
                    /\ Get(getAttributeValues(r.pointCloud, "COLOR_0")).numPoints > 0 )
    THEN r
    ELSE setNormalizedLinearGlobalColor(
           Read(r, "createGlobalNormalizedLinearColor", {"CONSTANT_RGBA"}),
           createGlobalNormalizedLinearColor(featureTable, FeatureTableBinary))

\* Lines 122-131: the global color, when there is no other color.
createAssignGlobalColor(r, featureTable) ==
  IF Failed(r) \/ IsSome(getAttributeValues(r.pointCloud, "COLOR_0"))
    THEN r
    ELSE setNormalizedLinearGlobalColor(
           Read(r, "createGlobalNormalizedLinearColor", {"CONSTANT_RGBA"}),
           createGlobalNormalizedLinearColor(featureTable, FeatureTableBinary))

\* createAssignGlobalPosition that runs even after an earlier step has thrown.
createAssignGlobalPositionAfterError(r, featureTable) ==
  setGlobalPosition(
    Read(r, "obtainGlobalPosition",
         {"RTC_CENTER"} \cup obtainQuantizationOffsetScaleReads(featureTable)),
    obtainGlobalPosition(featureTable, FeatureTableBinary))

\* Lines 133-139: the global position.
createAssignGlobalPosition(r, featureTable) ==
  IF Failed(r)
    THEN r
    ELSE setGlobalPosition(
           Read(r, "obtainGlobalPosition",
                {"RTC_CENTER"} \cup obtainQuantizationOffsetScaleReads(featureTable)),
           obtainGlobalPosition(featureTable, FeatureTableBinary))

\* createBody that computes the global position before the global color.
createBodyGlobalPositionFirst(r, featureTable, batchTable, dracoDecoderResult, overwrite) ==
  createAssignGlobalColor(
    createAssignGlobalPosition(
      createAssignBatchIds(
        createAssignColors(
          createAssignNormals(
            createAssignPositions(
              createAssignDraco(r, featureTable, batchTable, dracoDecoderResult, overwrite),
              featureTable, overwrite),
            featureTable, overwrite),
          featureTable, overwrite),
        featureTable),
      featureTable),
    featureTable)

\* Lines 56-141: everything create does once the Draco result is there.
createBody(r, featureTable, batchTable, dracoDecoderResult, overwrite) ==
  createAssignGlobalPosition(
    createAssignGlobalColor(
      createAssignBatchIds(
        createAssignColors(
          createAssignNormals(
            createAssignPositions(
              createAssignDraco(r, featureTable, batchTable, dracoDecoderResult, overwrite),
              featureTable, overwrite),
            featureTable, overwrite),
          featureTable, overwrite),
        featureTable),
      featureTable),
    featureTable)

\* -------------------------------------------------------------- the calls

\* Lines 260-267: the feature table's Draco extension object, or undefined.
featureTableExtensionOf(featureTable) ==
  IF ~IsSome(featureTable.extensions)
    THEN None
    ELSE Get(featureTable.extensions).draco

NewCall(featureTable, batchTable) ==
  [ pc |-> "start",
    featureTable |-> featureTable,
    batchTable |-> batchTable,
    setUp |-> 0,
    allProperties |-> [n \in {} |-> 0],
    dracoDecoderResult |-> None,
    run |-> NewRun,
    result |-> None,
    overlapped |-> FALSE,
    alpha |-> None ]

\* Another call is under way (it has started and not ended) while the call c
\* takes a step.
Overlaps(c) ==
  \E d \in DOMAIN call : d # c /\ call[d].pc \in {"awaitDecoder", "resume"}

\* DracoDecoder: the set-ups of the external decoder that the process has
\* started, each pending, ready or failed, and the set-up whose result
\* DracoDecoder.create() hands out (0: none).
NewDecoder == [ setUps |-> <<>>, cached |-> 0 ]

\* The decoder of a process in which an earlier call has set it up.
ReadyDecoder == [ setUps |-> <<"ready">>, cached |-> 1 ]

\* DracoDecoder.create() that sets the decoder up anew in every call.
DracoDecoderCreateUncached(d) ==
  [ setUps |-> Append(d.setUps, "pending"), cached |-> Len(d.setUps) + 1 ]

\* DracoDecoder.create(): the memoized set-up if there is one, else a new
\* set-up, which is memoized.
DracoDecoderCreate(d) ==
  IF d.cached # 0
    THEN d
    ELSE [ setUps |-> Append(d.setUps, "pending"), cached |-> Len(d.setUps) + 1 ]

\* create, up to its first suspension: without the Draco extension
\* obtainDracoDecodedAttributes returns undefined, with it the call waits
\* for DracoDecoder.create().
create(c) ==
  /\ call[c].pc = "start"
  /\ UNCHANGED <<source, upgrader>>
  /\ LET featureTableExtension == featureTableExtensionOf(call[c].featureTable)
     IN  IF ~IsSome(featureTableExtension)
           THEN /\ call' = [call EXCEPT ![c].pc = "resume",
                                        ![c].overlapped = @ \/ Overlaps(c)]
                /\ UNCHANGED decoder
           ELSE LET collected == collectAllProperties(Get(featureTableExtension),
                                                      call[c].batchTable)
                IN  /\ decoder' = DracoDecoderCreate(decoder)
                    /\ call' = [call EXCEPT
                         ![c].pc = "awaitDecoder",
                         ![c].setUp = decoder'.cached,
                         ![c].overlapped = @ \/ Overlaps(c),
                         ![c].allProperties = collected.allProperties,
                         ![c].featureTable.extensions =
                           Some([draco |-> Some(collected.featureTableExtension)])]

\* The asynchronous set-up of the external decoder ends: the decoder is
\* ready, or the set-up failed and a later call has to start another one.
setUpDecoder ==
  /\ \E i \in DOMAIN decoder.setUps :
       /\ decoder.setUps[i] = "pending"
       /\ \/ decoder' = [decoder EXCEPT !.setUps[i] = "ready"]
          \/ decoder' = [ setUps |-> [decoder.setUps EXCEPT ![i] = "failed"],
                          cached |-> IF decoder.cached = i THEN 0 ELSE decoder.cached ]
  /\ UNCHANGED <<call, source, upgrader>>

\* await DracoDecoder.create() rejects: create fails before it has called
\* the decoder.
createDecoderFailed(c) ==
  /\ call[c].pc = "awaitDecoder"
  /\ decoder.setUps[call[c].setUp] = "failed"
  /\ call' = [call EXCEPT
       ![c].pc = "failed",
       ![c].overlapped = @ \/ Overlaps(c),
       ![c].run = Throw(@, "DracoError", "could not set up the decoder")]
  /\ UNCHANGED <<decoder, source, upgrader>>

\* dracoDecoder.decodePointCloud(allProperties, buffer): the decoder returns
\* some of the requested properties, or rejects the buffer.
decodePointCloud(c) ==
  /\ call[c].pc = "awaitDecoder"
  /\ decoder.setUps[call[c].setUp] = "ready"
  /\ \/ \E names \in SUBSET (DOMAIN call[c].allProperties) :
          \E propertyDatatype \in DracoPropertyDatatypes :
            call' = [call EXCEPT
              ![c].pc = "resume",
              ![c].overlapped = @ \/ Overlaps(c),
              ![c].run = Logged(@, "decodePointCloud", "", "draco"),
              ![c].dracoDecoderResult =
                Some(DracoDecoderResultOf(names, propertyDatatype))]
     \/ call' = [call EXCEPT
          ![c].pc = "failed",
          ![c].overlapped = @ \/ Overlaps(c),
          ![c].run = Throw(Logged(@, "decodePointCloud", "", "draco"),
                           "DracoError", "could not decode")]
  /\ UNCHANGED <<decoder, source, upgrader>>

\* createResume with one point cloud for all calls instead of a new
\* DefaultPointCloud in each: every call goes on with what the first call
\* has stored.
createResumeSharedPointCloud(c) ==
  /\ call[c].pc = "resume"
  /\ \E overwrite \in BOOLEAN :
       LET r == createBody([call[c].run EXCEPT !.pointCloud = call[1].run.pointCloud],
                           call[c].featureTable, call[c].batchTable,
                           call[c].dracoDecoderResult, overwrite)
       IN  call' = [call EXCEPT
             ![c].run = r,
             ![c].overlapped = @ \/ Overlaps(c),
             ![c].pc = IF Failed(r) THEN "failed" ELSE "done",
             ![c].result = IF Failed(r) THEN None ELSE Some(r.pointCloud)]
  /\ UNCHANGED <<decoder, source, upgrader>>

\* create, from the Draco result to its return.
createResume(c) ==
  /\ call[c].pc = "resume"
  /\ \E overwrite \in BOOLEAN :
       LET r == createBody(call[c].run, call[c].featureTable, call[c].batchTable,
                           call[c].dracoDecoderResult, overwrite)
       IN  call' = [call EXCEPT
             ![c].run = r,
             ![c].overlapped = @ \/ Overlaps(c),
             ![c].pc = IF Failed(r) THEN "failed" ELSE "done",
             ![c].result = IF Failed(r) THEN None ELSE Some(r.pointCloud)]
  /\ UNCHANGED <<decoder, source, upgrader>>

\* The inputs of the model.  The fields of a feature table fall into groups
\* that create decides separately (positions, normals, colors, batch ids,
\* and the rest); every input takes each combination of the fields of one
\* group (its focus) with a few combinations of the other groups, among them
\* those that make create fail.
PositionShapes(full) ==
  IF full
    THEN [ POSITION : BOOLEAN, POSITION_QUANTIZED : BOOLEAN,
           QUANTIZED_VOLUME_OFFSET : BOOLEAN, QUANTIZED_VOLUME_SCALE : BOOLEAN ]
    ELSE { [ POSITION |-> TRUE, POSITION_QUANTIZED |-> FALSE,
             QUANTIZED_VOLUME_OFFSET |-> FALSE, QUANTIZED_VOLUME_SCALE |-> FALSE ],
           [ POSITION |-> FALSE, POSITION_QUANTIZED |-> TRUE,
             QUANTIZED_VOLUME_OFFSET |-> TRUE, QUANTIZED_VOLUME_SCALE |-> TRUE ],
           [ POSITION |-> TRUE, POSITION_QUANTIZED |-> FALSE,
             QUANTIZED_VOLUME_OFFSET |-> FALSE, QUANTIZED_VOLUME_SCALE |-> TRUE ],
           [ POSITION |-> FALSE, POSITION_QUANTIZED |-> FALSE,
             QUANTIZED_VOLUME_OFFSET |-> FALSE, QUANTIZED_VOLUME_SCALE |-> FALSE ] }

NormalShapes(full) ==
  IF full
    THEN [ NORMAL : BOOLEAN, NORMAL_OCT16P : BOOLEAN ]
    ELSE { [ NORMAL |-> FALSE, NORMAL_OCT16P |-> FALSE ],
           [ NORMAL |-> TRUE, NORMAL_OCT16P |-> TRUE ] }

ColorShapes(full) ==
  IF full
    THEN [ RGBA : BOOLEAN, RGB : BOOLEAN, RGB565 : BOOLEAN, CONSTANT_RGBA : BOOLEAN ]
    ELSE { [ RGBA |-> FALSE, RGB |-> FALSE, RGB565 |-> FALSE, CONSTANT_RGBA |-> FALSE ],
           [ RGBA |-> TRUE, RGB |-> TRUE, RGB565 |-> TRUE, CONSTANT_RGBA |-> TRUE ] }

BatchShapes(full) ==
  IF full
    THEN [ BATCH_ID : BatchIdKinds,
           BATCH_LENGTH : {None, Some(0), Some(MaxBatchLength)} ]
    ELSE { [ BATCH_ID |-> "absent", BATCH_LENGTH |-> None ],
           [ BATCH_ID |-> "", BATCH_LENGTH |-> None ],
           [ BATCH_ID |-> "", BATCH_LENGTH |-> Some(MaxBatchLength) ] }

OtherShapes(full) ==
  IF full
    THEN { o \in [ POINTS_LENGTH : {0, MaxPoints}, RTC_CENTER : BOOLEAN,
                   extensions : ExtensionKinds, batchTable : BatchTableKinds ] :
             ~(o.extensions \in {"draco", "dracoCustom"} /\ o.batchTable = "draco") }
    ELSE [ POINTS_LENGTH : {MaxPoints}, RTC_CENTER : {TRUE},
           extensions : {"absent", "draco"}, batchTable : {"none"} ]

Groups == {"position", "normal", "color", "batch", "other"}

ShapeOf(p, n, c, b, o) ==
  [ POINTS_LENGTH |-> o.POINTS_LENGTH,
    POSITION |-> p.POSITION,
    POSITION_QUANTIZED |-> p.POSITION_QUANTIZED,
    QUANTIZED_VOLUME_OFFSET |-> p.QUANTIZED_VOLUME_OFFSET,
    QUANTIZED_VOLUME_SCALE |-> p.QUANTIZED_VOLUME_SCALE,
    NORMAL |-> n.NORMAL,
    NORMAL_OCT16P |-> n.NORMAL_OCT16P,
    RGBA |-> c.RGBA,
    RGB |-> c.RGB,
    RGB565 |-> c.RGB565,
    CONSTANT_RGBA |-> c.CONSTANT_RGBA,
    BATCH_ID |-> b.BATCH_ID,
    BATCH_LENGTH |-> b.BATCH_LENGTH,
    RTC_CENTER |-> o.RTC_CENTER,
    extensions |-> o.extensions ]

Init ==
  /\ \E focus \in Groups :
       \E p \in PositionShapes(focus = "position"),
          n \in NormalShapes(focus = "normal"),
          c \in ColorShapes(focus = "color"),
          b \in BatchShapes(focus = "batch"),
          o \in OtherShapes(focus = "other") :
         call = [ i \in {1} |->
                    NewCall(FeatureTableOf(ShapeOf(p, n, c, b, o)),
                            BatchTableOf(o.batchTable)) ]
  /\ decoder \in {NewDecoder, ReadyDecoder}
  /\ source = NewTilesetSourceFs
  /\ upgrader = IdleUpgrader

Next ==
  \/ \E c \in DOMAIN call : create(c)
  \/ setUpDecoder
  \/ \E c \in DOMAIN call : createDecoderFailed(c)
  \/ \E c \in DOMAIN call : decodePointCloud(c)
  \/ \E c \in DOMAIN call : createResume(c)

Spec == Init /\ [][Next]_vars

\* PntsPointClouds.mayRequireAlpha is called on the feature table of the call:
\* the answer is kept with the call.
mayRequireAlphaCall(c) ==
  /\ ~IsSome(call[c].alpha)
  /\ call' = [call EXCEPT ![c].alpha = Some(mayRequireAlpha(call[c].featureTable))]
  /\ UNCHANGED <<decoder, source, upgrader>>

\* A call of create and a call of mayRequireAlpha on the same feature table,
\* for every combination of the color fields.
InitAlpha ==
  /\ \E p \in PositionShapes(FALSE),
        c \in ColorShapes(TRUE),
        o \in [ POINTS_LENGTH : {MaxPoints}, RTC_CENTER : {TRUE},
                extensions : {"absent", "other", "dracoPosition"},
                batchTable : {"none"} ] :
       call = [ i \in {1} |->
                  NewCall(FeatureTableOf(
                            ShapeOf(p, [ NORMAL |-> FALSE, NORMAL_OCT16P |-> FALSE ], c,
                                    [ BATCH_ID |-> "absent", BATCH_LENGTH |-> None ], o)),
                          BatchTableOf(o.batchTable)) ]
  /\ decoder = NewDecoder
  /\ source = NewTilesetSourceFs
  /\ upgrader = IdleUpgrader

NextAlpha ==
  \/ \E c \in DOMAIN call : create(c)
  \/ setUpDecoder
  \/ \E c \in DOMAIN call : createDecoderFailed(c)
  \/ \E c \in DOMAIN call : decodePointCloud(c)
  \/ \E c \in DOMAIN call : createResume(c)
  \/ \E c \in DOMAIN call : mayRequireAlphaCall(c)

SpecAlpha == InitAlpha /\ [][NextAlpha]_vars

\* The feature tables of the calls that run together: with and without the
\* Draco extension, with raw and with quantized positions.
ConcurrentShapes ==
  { ShapeOf(p,
            [ NORMAL |-> FALSE, NORMAL_OCT16P |-> FALSE ],
            [ RGBA |-> FALSE, RGB |-> TRUE, RGB565 |-> FALSE, CONSTANT_RGBA |-> FALSE ],
            [ BATCH_ID |-> "absent", BATCH_LENGTH |-> None ],
            o) :
      p \in { [ POSITION |-> TRUE, POSITION_QUANTIZED |-> FALSE,
                QUANTIZED_VOLUME_OFFSET |-> FALSE, QUANTIZED_VOLUME_SCALE |-> FALSE ],
              [ POSITION |-> FALSE, POSITION_QUANTIZED |-> TRUE,
                QUANTIZED_VOLUME_OFFSET |-> TRUE, QUANTIZED_VOLUME_SCALE |-> TRUE ] },
      o \in [ POINTS_LENGTH : {MaxPoints}, RTC_CENTER : {TRUE},
              extensions : {"absent", "dracoPosition"}, batchTable : {"none"} ] }

\* MaxCalls calls of create in a process that has not set the decoder up.
InitConcurrent ==
  /\ call \in [ 1..MaxCalls ->
                  { NewCall(FeatureTableOf(s), BatchTableOf("none")) :
                      s \in ConcurrentShapes } ]
  /\ decoder = NewDecoder
  /\ source = NewTilesetSourceFs
  /\ upgrader = IdleUpgrader

SpecConcurrent == InitConcurrent /\ [][Next]_vars

\* A new TilesetSourceFs, on which any sequence of calls is made.
InitSource ==
  /\ source = NewTilesetSourceFs
  /\ call = <<>>
  /\ decoder = NewDecoder
  /\ upgrader = IdleUpgrader

NextSource ==
  \/ \E fullInputName \in DirectoryNames : open(fullInputName)
  \/ getKeys
  \/ \E key \in Keys : getValue(key)
  \/ close

SpecSource == InitSource /\ [][NextSource]_vars

\* An upgrader and a tileset, to which upgradeTilesetObject is applied up to
\* MaxApplications times.
InitUpgrade ==
  /\ upgrader \in Upgraders
  /\ call = <<>>
  /\ decoder = NewDecoder
  /\ source = NewTilesetSourceFs

NextUpgrade ==
  \/ upgradeTilesetObject
  \/ upgradeAssetVersionNumberStep
  \/ upgradeRefineCaseStep
  \/ upgradeContentUrlToUriStep
  \/ upgradeExtensionDeclarationsStep

SpecUpgrade == InitUpgrade /\ [][NextUpgrade]_vars

\* =================================================================== claims

\* ----------------------------------------------- vocabulary of the claims

Run(c) == call[c].run

Attributes(c) == call[c].run.pointCloud.attributes

Table(c) == call[c].featureTable

\* The call has returned or thrown.
Finished(c) == call[c].pc \in {"done", "failed"}

ErrorKind(c) == IF Failed(Run(c)) THEN Get(Run(c).error).kind ELSE "none"

ErrorMessage(c) == IF Failed(Run(c)) THEN Get(Run(c).error).message ELSE ""

\* The Draco decoder result of the call holds the property.
DracoHas(c, name) ==
  /\ IsSome(call[c].dracoDecoderResult)
  /\ name \in DOMAIN Get(call[c].dracoDecoderResult)

\* The call stored the slot with values of the given origin.
Stored(c, name, from) ==
  \E i \in DOMAIN Run(c).log :
    Run(c).log[i].name = name /\ Run(c).log[i].from = from

\* The call is over and its step 1 (the Draco decoder and the stores of its
\* result) did not throw.
Step1Completed(c) == Finished(c) /\ ErrorKind(c) \notin {"DracoError", "Error"}

\* create threw one of the two format errors of createPositions.
PositionError(c) ==
  /\ ErrorKind(c) = "TileFormatError"
  /\ ErrorMessage(c) # "Found BATCH_ID but no BATCH_LENGTH"

\* The call is over and went on after the position step.
PositionsCompleted(c) == Step1Completed(c) /\ ~PositionError(c)

Slots == {"POSITION", "NORMAL", "COLOR_0", "_FEATURE_ID_0"}

\* ----------------------------------------------------------------------- C1

\* C1: a slot (POSITION, NORMAL, COLOR_0, _FEATURE_ID_0) that create stored
\* from the Draco result is not written by a raw decode later in the call:
\* in the sequence of stores of a call no store of raw values follows a
\* store of Draco values into the same slot, and the slot keeps values that
\* are read from the Draco attribute data.
C1_DracoSlotsKeptFromRawDecodes ==
  \A c \in DOMAIN call :
    /\ \A i, j \in DOMAIN Run(c).log :
         ( /\ i < j
           /\ Run(c).log[i].name \in Slots
           /\ Run(c).log[i].from = "draco"
           /\ Run(c).log[j].name = Run(c).log[i].name )
         => Run(c).log[j].from # "raw"
    /\ \A slot \in Slots :
         Stored(c, slot, "draco")
           => /\ slot \in DOMAIN Attributes(c)
              /\ Attributes(c)[slot].values.binary # FeatureTableBinary

\* C1 witness: a call that returned a point cloud whose four slots all came
\* from the Draco result although the feature table has a raw field for each.
C1_Witness ==
  \E c \in DOMAIN call :
    /\ call[c].pc = "done"
    /\ \A slot \in Slots : Stored(c, slot, "draco")
    /\ IsSome(Table(c).POSITION) /\ IsSome(Table(c).NORMAL)
    /\ IsSome(Table(c).RGBA) /\ IsSome(Table(c).BATCH_ID)
    /\ IsSome(Table(c).BATCH_LENGTH)

\* ----------------------------------------------------------------------- C2

\* C2: when the Draco result holds POSITION, createPositions is not called:
\* no field of the feature table is read for the per-point positions, the
\* call does not throw a format error of createPositions, and the stored
\* positions are the Draco attribute data.
C2_DracoPositionSkipsRawPositions ==
  \A c \in DOMAIN call :
    (Finished(c) /\ DracoHas(c, "POSITION"))
      => /\ \A read \in Run(c).reads : read[1] # "createPositions"
         /\ ~PositionError(c)
         /\ Attributes(c)["POSITION"].values.binary = DracoAttributeData("POSITION")

\* C2 witness: a call that returned with Draco positions for a feature table
\* that has POSITION_QUANTIZED but neither POSITION nor the volume offset.
C2_Witness ==
  \E c \in DOMAIN call :
    /\ call[c].pc = "done"
    /\ DracoHas(c, "POSITION")
    /\ ~IsSome(Table(c).POSITION)
    /\ IsSome(Table(c).POSITION_QUANTIZED)
    /\ ~IsSome(Table(c).QUANTIZED_VOLUME_OFFSET)


\* ----------------------------------------------------------------------- C3

\* C3: when step 1 left the position slot empty and the feature table has
\* both POSITION and POSITION_QUANTIZED, the stored positions are the float
\* VEC3 view of the binary at the offset of POSITION, with no function mapped
\* over it; createPositions reads neither POSITION_QUANTIZED nor the
\* quantization volume, and throws no format error, whether or not
\* QUANTIZED_VOLUME_OFFSET and QUANTIZED_VOLUME_SCALE are there.
C3_PositionWinsOverQuantized ==
  \A c \in DOMAIN call :
    ( /\ Step1Completed(c)
      /\ ~DracoHas(c, "POSITION")
      /\ IsSome(Table(c).POSITION)
      /\ IsSome(Table(c).POSITION_QUANTIZED) )
      => /\ ~PositionError(c)
         /\ "POSITION" \in DOMAIN Attributes(c)
         /\ Attributes(c)["POSITION"].values =
              [ binary |-> FeatureTableBinary,
                byteOffset |-> Get(Table(c).POSITION).byteOffset,
                legacyType |-> "VEC3",
                legacyComponentType |-> "FLOAT",
                numPoints |-> Table(c).POINTS_LENGTH,
                mapped |-> <<>> ]
         /\ \A field \in {"POSITION_QUANTIZED", "QUANTIZED_VOLUME_OFFSET",
                          "QUANTIZED_VOLUME_SCALE"} :
              <<"createPositions", field>> \notin Run(c).reads

\* C3 witness: a call that returned raw positions for a feature table with
\* POSITION and POSITION_QUANTIZED and without QUANTIZED_VOLUME_SCALE.
C3_Witness ==
  \E c \in DOMAIN call :
    /\ call[c].pc = "done"
    /\ Stored(c, "POSITION", "raw")
    /\ IsSome(Table(c).POSITION)
    /\ IsSome(Table(c).POSITION_QUANTIZED)
    /\ ~IsSome(Table(c).QUANTIZED_VOLUME_SCALE)

\* ----------------------------------------------------------------------- C4

\* C4: when step 1 left the position slot empty and the feature table has
\* neither POSITION nor POSITION_QUANTIZED, create fails and returns no point
\* cloud, whatever the other fields are; the error is the TileFormatError
\* "neither POSITION nor POSITION_QUANTIZED" (unless step 1 itself threw).
C4_NoPositionFieldFails ==
  \A c \in DOMAIN call :
    ( /\ Finished(c)
      /\ ~DracoHas(c, "POSITION")
      /\ ~IsSome(Table(c).POSITION)
      /\ ~IsSome(Table(c).POSITION_QUANTIZED) )
      => /\ call[c].pc = "failed"
         /\ call[c].result = None
         /\ "POSITION" \notin DOMAIN Attributes(c)
         /\ Step1Completed(c)
              => /\ ErrorKind(c) = "TileFormatError"
                 /\ ErrorMessage(c) = "neither POSITION nor POSITION_QUANTIZED"

\* C4 witness: a call that failed so although the feature table has colors,
\* normals and a Draco extension whose result has no POSITION.
C4_Witness ==
  \E c \in DOMAIN call :
    /\ call[c].pc = "failed"
    /\ ErrorMessage(c) = "neither POSITION nor POSITION_QUANTIZED"
    /\ IsSome(call[c].dracoDecoderResult)
    /\ IsSome(Table(c).RGB) /\ IsSome(Table(c).NORMAL)

\* ----------------------------------------------------------------------- C5

\* C5: when the positions are taken from POSITION_QUANTIZED (step 1 left the
\* slot empty, POSITION is absent), create fails and returns nothing unless
\* QUANTIZED_VOLUME_OFFSET and QUANTIZED_VOLUME_SCALE are both present, with
\* a TileFormatError of createPositions (unless step 1 itself threw); with
\* both, the dequantized positions are stored.
C5_QuantizedNeedsOffsetAndScale ==
  \A c \in DOMAIN call :
    ( /\ Finished(c)
      /\ ~DracoHas(c, "POSITION")
      /\ ~IsSome(Table(c).POSITION)
      /\ IsSome(Table(c).POSITION_QUANTIZED) )
      => IF /\ IsSome(Table(c).QUANTIZED_VOLUME_OFFSET)
            /\ IsSome(Table(c).QUANTIZED_VOLUME_SCALE)
           THEN Step1Completed(c)
                  => /\ ~PositionError(c)
                     /\ Stored(c, "POSITION", "raw")
                     /\ Attributes(c)["POSITION"].values.byteOffset =
                          Get(Table(c).POSITION_QUANTIZED).byteOffset
                     /\ Attributes(c)["POSITION"].values.legacyComponentType =
                          "UNSIGNED_SHORT"
                     /\ Attributes(c)["POSITION"].values.mapped =
                          << <<"dequantization", <<0, 0, 0>>,
                               Get(Table(c).QUANTIZED_VOLUME_SCALE)>> >>
           ELSE /\ call[c].pc = "failed"
                /\ call[c].result = None
                /\ "POSITION" \notin DOMAIN Attributes(c)
                /\ Step1Completed(c) => PositionError(c)

\* C5 witness: a call that failed on POSITION_QUANTIZED with the volume
\* offset but without the volume scale.
C5_Witness ==
  \E c \in DOMAIN call :
    /\ call[c].pc = "failed"
    /\ PositionError(c)
    /\ IsSome(Table(c).POSITION_QUANTIZED)
    /\ IsSome(Table(c).QUANTIZED_VOLUME_OFFSET)
    /\ ~IsSome(Table(c).QUANTIZED_VOLUME_SCALE)


\* ----------------------------------------------------------------------- C6

\* The colors create is to decode from a feature table whose color slot the
\* Draco result left empty: from RGBA if present, else from RGB, else from
\* RGB565, each as its own layout at its own offset with its own conversion.
RawColorsByPrecedence(featureTable) ==
  LET view(field, legacyType, legacyComponentType, conversion) ==
        [ binary |-> FeatureTableBinary,
          byteOffset |-> Get(featureTable[field]).byteOffset,
          legacyType |-> legacyType,
          legacyComponentType |-> legacyComponentType,
          numPoints |-> featureTable.POINTS_LENGTH,
          mapped |-> << <<conversion>> >> ]
  IN  IF IsSome(featureTable.RGBA)
        THEN Some(view("RGBA", "VEC4", "UNSIGNED_BYTE",
                       "Colors.standardRGBAToNormalizedLinearRGBA"))
        ELSE IF IsSome(featureTable.RGB)
          THEN Some(view("RGB", "VEC3", "UNSIGNED_BYTE",
                         "Colors.standardRGBToNormalizedLinearRGBA"))
          ELSE IF IsSome(featureTable.RGB565)
            THEN Some(view("RGB565", "SCALAR", "UNSIGNED_SHORT",
                           "Colors.standardRGB565ToNormalizedLinearRGBA"))
            ELSE None

\* C6: when step 1 left the color slot empty (and the position step did not
\* throw), the per-point color is decoded from exactly one raw field, by the
\* precedence RGBA > RGB > RGB565; without any of them the color slot stays
\* empty.  The fields of lower precedence are not read.
C6_ColorPrecedence ==
  \A c \in DOMAIN call :
    ( /\ PositionsCompleted(c)
      /\ ~DracoHas(c, "RGB")
      /\ ~DracoHas(c, "RGBA") )
      => /\ getAttributeValues(Run(c).pointCloud, "COLOR_0")
              = RawColorsByPrecedence(Table(c))
         /\ IsSome(Table(c).RGBA)
              => /\ <<"createNormalizedLinearColors", "RGB">> \notin Run(c).reads
                 /\ <<"createNormalizedLinearColors", "RGB565">> \notin Run(c).reads
         /\ IsSome(Table(c).RGB)
              => <<"createNormalizedLinearColors", "RGB565">> \notin Run(c).reads

\* C6 witness: a call that returned colors decoded from RGBA for a feature
\* table that has RGBA, RGB and RGB565.
C6_Witness ==
  \E c \in DOMAIN call :
    /\ call[c].pc = "done"
    /\ Stored(c, "COLOR_0", "raw")
    /\ IsSome(Table(c).RGBA) /\ IsSome(Table(c).RGB) /\ IsSome(Table(c).RGB565)
    /\ Attributes(c)["COLOR_0"].values.byteOffset = Get(Table(c).RGBA).byteOffset

\* ----------------------------------------------------------------------- C7

\* C7: CONSTANT_RGBA sets the global color only.  A call that returns for a
\* table whose only color is CONSTANT_RGBA (no RGBA, RGB or RGB565, no color
\* in the Draco result) has the converted CONSTANT_RGBA as global color and
\* no COLOR_0 attribute; and no call ever stores COLOR_0 values that are not
\* a view of per-point data.
C7_ConstantRgbaSetsGlobalColorOnly ==
  \A c \in DOMAIN call :
    /\ ( /\ call[c].pc = "done"
         /\ IsSome(Table(c).CONSTANT_RGBA)
         /\ ~IsSome(Table(c).RGBA) /\ ~IsSome(Table(c).RGB) /\ ~IsSome(Table(c).RGB565)
         /\ ~DracoHas(c, "RGB") /\ ~DracoHas(c, "RGBA") )
         => /\ Get(call[c].result).globalColor =
                 Some(<<"Colors.standardRGBAToNormalizedLinearRGBA",
                        Get(Table(c).CONSTANT_RGBA)>>)
            /\ getAttributeValues(Get(call[c].result), "COLOR_0") = None
    /\ "COLOR_0" \in DOMAIN Attributes(c)
         => \/ /\ Stored(c, "COLOR_0", "draco")
               /\ Attributes(c)["COLOR_0"].values.binary
                    \in {DracoAttributeData("RGB"), DracoAttributeData("RGBA")}
            \/ /\ Stored(c, "COLOR_0", "raw")
               /\ Some(Attributes(c)["COLOR_0"].values) = RawColorsByPrecedence(Table(c))

\* C7 witness: a call that returned a global color from CONSTANT_RGBA and no
\* COLOR_0 attribute.
C7_Witness ==
  \E c \in DOMAIN call :
    /\ call[c].pc = "done"
    /\ IsSome(Table(c).CONSTANT_RGBA)
    /\ IsSome(Get(call[c].result).globalColor)
    /\ "COLOR_0" \notin DOMAIN Get(call[c].result).attributes

\* ----------------------------------------------------------------------- C8

\* C8: the global color is assigned only while the per-point color slot is
\* empty: in every state of a call, a point cloud with a COLOR_0 attribute
\* (from the Draco result or from RGBA, RGB or RGB565) has no global color
\* and no call of setNormalizedLinearGlobalColor, CONSTANT_RGBA or not.
C8_GlobalColorOnlyWithoutPointColors ==
  \A c \in DOMAIN call :
    "COLOR_0" \in DOMAIN Attributes(c)
      => /\ Run(c).pointCloud.globalColor = None
         /\ ~Stored(c, "globalColor", "raw")
         /\ <<"createGlobalNormalizedLinearColor", "CONSTANT_RGBA">> \notin Run(c).reads

\* C8 witness: a call that returned per-point colors and no global color for
\* a feature table with CONSTANT_RGBA.
C8_Witness ==
  \E c \in DOMAIN call :
    /\ call[c].pc = "done"
    /\ IsSome(Table(c).CONSTANT_RGBA)
    /\ "COLOR_0" \in DOMAIN Get(call[c].result).attributes
    /\ Get(call[c].result).globalColor = None


\* ----------------------------------------------------------------------- C9

\* C9 as claimed: a feature table with BATCH_ID and without BATCH_LENGTH
\* makes create throw a TileFormatError and return no point cloud (read for
\* the calls whose step 1 did not throw an error of its own).
C9_Original ==
  \A c \in DOMAIN call :
    ( /\ Step1Completed(c)
      /\ IsSome(Table(c).BATCH_ID)
      /\ ~IsSome(Table(c).BATCH_LENGTH) )
      => /\ call[c].pc = "failed"
         /\ ErrorKind(c) = "TileFormatError"
         /\ call[c].result = None

\* C9 as amended: a feature table with BATCH_ID and without BATCH_LENGTH
\* makes create fail and return no point cloud unless step 1 stored
\* _FEATURE_ID_0 from the BATCH_ID of the Draco result; the error is a
\* TileFormatError whenever step 1 did not throw.  When the Draco result
\* holds BATCH_ID, createBatchIds is not called and the missing BATCH_LENGTH
\* raises no error.
C9_BatchIdNeedsLengthUnlessDraco ==
  \A c \in DOMAIN call :
    /\ ( /\ Finished(c)
         /\ IsSome(Table(c).BATCH_ID)
         /\ ~IsSome(Table(c).BATCH_LENGTH)
         /\ ~Stored(c, "_FEATURE_ID_0", "draco") )
         => /\ call[c].pc = "failed"
            /\ call[c].result = None
            /\ Step1Completed(c) => ErrorKind(c) = "TileFormatError"
            /\ "_FEATURE_ID_0" \notin DOMAIN Attributes(c)
    /\ (Finished(c) /\ DracoHas(c, "BATCH_ID"))
         => /\ ErrorMessage(c) # "Found BATCH_ID but no BATCH_LENGTH"
            /\ \A read \in Run(c).reads : read[1] # "createBatchIds"

\* C9 witness: a call that threw "Found BATCH_ID but no BATCH_LENGTH" after
\* it had stored positions.
C9_Witness ==
  \E c \in DOMAIN call :
    /\ call[c].pc = "failed"
    /\ ErrorMessage(c) = "Found BATCH_ID but no BATCH_LENGTH"
    /\ "POSITION" \in DOMAIN Attributes(c)
    /\ call[c].result = None

\* ---------------------------------------------------------------------- C10

\* C10: when the raw BATCH_ID is decoded, the values are read as scalars of
\* the componentType of its descriptor, or as UNSIGNED_SHORT when the
\* descriptor has none, and _FEATURE_ID_0 is declared SCALAR with the
\* component type that corresponds to that same legacy type.
C10_BatchIdComponentType ==
  \A c \in DOMAIN call :
    Stored(c, "_FEATURE_ID_0", "raw")
      => LET attribute == Attributes(c)["_FEATURE_ID_0"]
             given == Get(Table(c).BATCH_ID).componentType
             legacyComponentType ==
               IF IsSome(given) THEN Get(given) ELSE "UNSIGNED_SHORT"
         IN  /\ attribute.type = "SCALAR"
             /\ attribute.values.legacyType = "SCALAR"
             /\ attribute.values.legacyComponentType = legacyComponentType
             /\ attribute.values.byteOffset = Get(Table(c).BATCH_ID).byteOffset
             /\ attribute.values.binary = FeatureTableBinary
             /\ attribute.componentType =
                  convertLegacyComponentTypeToComponentType(legacyComponentType)

\* C10 witness: a call that returned batch ids decoded from a BATCH_ID
\* descriptor without componentType.
C10_Witness ==
  \E c \in DOMAIN call :
    /\ call[c].pc = "done"
    /\ Stored(c, "_FEATURE_ID_0", "raw")
    /\ ~IsSome(Get(Table(c).BATCH_ID).componentType)
    /\ Attributes(c)["_FEATURE_ID_0"].values.legacyComponentType = "UNSIGNED_SHORT"

\* ------------------------------------------------ vocabulary, global position

\* create returned a point cloud to its caller.
PointCloudReturned(c) == call[c].pc = "done" /\ IsSome(call[c].result)


\* The point cloud that create returned.
ReturnedPointCloud(c) == Get(call[c].result)

\* QUANTIZED_VOLUME_OFFSET and QUANTIZED_VOLUME_SCALE are both present.
Quantized(featureTable) ==
  /\ IsSome(featureTable.QUANTIZED_VOLUME_OFFSET)
  /\ IsSome(featureTable.QUANTIZED_VOLUME_SCALE)

\* The change from the Y-up axes of the tile to the Z-up axes of the result.
SwapYZ(v) == <<v[1], v[3], -v[2]>>

\* ---------------------------------------------------------------------- C11

\* C11: when RTC_CENTER = [x, y, z] is present and QUANTIZED_VOLUME_OFFSET
\* and QUANTIZED_VOLUME_SCALE are not both present, the global position of
\* the point cloud that create returns is [x, z, -y]; RTC_CENTER = [1, 2, 3]
\* gives [1, 3, -2].
C11_RtcCenterAxisSwap ==
  \A c \in DOMAIN call :
    ( /\ PointCloudReturned(c)
      /\ IsSome(Table(c).RTC_CENTER)
      /\ ~Quantized(Table(c)) )
    => /\ ReturnedPointCloud(c).globalPosition
            = Some(SwapYZ(Get(Table(c).RTC_CENTER)))
       /\ Get(Table(c).RTC_CENTER) = <<1, 2, 3>>
            => ReturnedPointCloud(c).globalPosition = Some(<<1, 3, -2>>)

\* A returned point cloud of a table with RTC_CENTER = [1, 2, 3] and with the
\* quantization offset but no scale.
C11_Witness ==
  \E c \in DOMAIN call :
    /\ PointCloudReturned(c)
    /\ Table(c).RTC_CENTER = Some(<<1, 2, 3>>)
    /\ IsSome(Table(c).QUANTIZED_VOLUME_OFFSET)
    /\ ~IsSome(Table(c).QUANTIZED_VOLUME_SCALE)
    /\ ReturnedPointCloud(c).globalPosition = Some(<<1, 3, -2>>)

\* ---------------------------------------------------------------------- C12

\* C12: whenever QUANTIZED_VOLUME_OFFSET = [ox, oy, oz] and
\* QUANTIZED_VOLUME_SCALE are both present, the global position of the
\* returned point cloud is swap(RTC_CENTER) + [ox, oz, -oy], where
\* swap(RTC_CENTER) is [0, 0, 0] without RTC_CENTER; this is so whether the
\* positions of the points came from POSITION_QUANTIZED, from the raw
\* POSITION or from the Draco result.
C12_QuantizationOffsetAdded ==
  \A c \in DOMAIN call :
    ( PointCloudReturned(c) /\ Quantized(Table(c)) )
    => LET base == IF IsSome(Table(c).RTC_CENTER)
                     THEN SwapYZ(Get(Table(c).RTC_CENTER))
                     ELSE <<0, 0, 0>>
           offset == SwapYZ(Get(Table(c).QUANTIZED_VOLUME_OFFSET))
       IN  ReturnedPointCloud(c).globalPosition
             = Some(<<base[1] + offset[1], base[2] + offset[2], base[3] + offset[3]>>)

\* A returned point cloud whose positions came from the Draco result, of a
\* table with RTC_CENTER = [1, 2, 3] and the offset [10, 20, 30].
C12_Witness ==
  \E c \in DOMAIN call :
    /\ PointCloudReturned(c)
    /\ Quantized(Table(c))
    /\ Stored(c, "POSITION", "draco")
    /\ Table(c).RTC_CENTER = Some(<<1, 2, 3>>)
    /\ Table(c).QUANTIZED_VOLUME_OFFSET = Some(<<10, 20, 30>>)
    /\ ReturnedPointCloud(c).globalPosition = Some(<<11, 33, -22>>)

\* The same with positions from the raw POSITION.
C12_RawPositionCase ==
  \E c \in DOMAIN call :
    /\ PointCloudReturned(c)
    /\ Quantized(Table(c))
    /\ Stored(c, "POSITION", "raw")
    /\ IsSome(Table(c).POSITION)
    /\ ReturnedPointCloud(c).globalPosition = Some(<<11, 33, -22>>)

\* The same with positions from POSITION_QUANTIZED and without RTC_CENTER.
C12_QuantizedPositionCase ==
  \E c \in DOMAIN call :
    /\ PointCloudReturned(c)
    /\ Quantized(Table(c))
    /\ Stored(c, "POSITION", "raw")
    /\ ~IsSome(Table(c).POSITION)
    /\ ~IsSome(Table(c).RTC_CENTER)
    /\ ReturnedPointCloud(c).globalPosition = Some(<<10, 30, -20>>)


\* ---------------------------------------------------------------------- C13

\* C13: the global position of the point cloud that create returns is
\* undefined exactly when RTC_CENTER is absent and QUANTIZED_VOLUME_OFFSET
\* and QUANTIZED_VOLUME_SCALE are not both present; in every other case it
\* is a defined triple of numbers.
C13_GlobalPositionUndefinedExactlyWithoutSources ==
  \A c \in DOMAIN call :
    PointCloudReturned(c)
    => LET globalPosition == ReturnedPointCloud(c).globalPosition
       IN  /\ ~IsSome(globalPosition)
                <=> (~IsSome(Table(c).RTC_CENTER) /\ ~Quantized(Table(c)))
           /\ IsSome(globalPosition)
                => /\ Len(Get(globalPosition)) = 3
                   /\ \A i \in 1..3 : Get(globalPosition)[i] \in Int

\* A returned point cloud without global position, of a table without
\* RTC_CENTER that has the quantization scale but not the offset.
C13_Witness ==
  \E c \in DOMAIN call :
    /\ PointCloudReturned(c)
    /\ ~IsSome(Table(c).RTC_CENTER)
    /\ ~IsSome(Table(c).QUANTIZED_VOLUME_OFFSET)
    /\ IsSome(Table(c).QUANTIZED_VOLUME_SCALE)
    /\ ~IsSome(ReturnedPointCloud(c).globalPosition)
    /\ Stored(c, "globalPosition", "raw")


\* ---------------------------------------------------------------------- C14

\* C14: when the Draco result did not fill the normal slot and create got
\* past its position step: with NORMAL the normals are the float VEC3 view of
\* the binary at the offset of NORMAL (NORMAL_OCT16P is not read); otherwise
\* with NORMAL_OCT16P they are the two-byte view at its offset with the oct
\* decoding mapped over it; otherwise the slot stays empty, and create fails
\* only for a reason of a later step (BATCH_ID without BATCH_LENGTH).
C14_NormalsByPrecedence ==
  \A c \in DOMAIN call :
    ( PositionsCompleted(c) /\ ~DracoHas(c, "NORMAL") )
    => IF IsSome(Table(c).NORMAL)
         THEN /\ "NORMAL" \in DOMAIN Attributes(c)
              /\ Attributes(c)["NORMAL"].values =
                   [ binary |-> FeatureTableBinary,
                     byteOffset |-> Get(Table(c).NORMAL).byteOffset,
                     legacyType |-> "VEC3",
                     legacyComponentType |-> "FLOAT",
                     numPoints |-> Table(c).POINTS_LENGTH,
                     mapped |-> <<>> ]
              /\ <<"createNormals", "NORMAL_OCT16P">> \notin Run(c).reads
         ELSE IF IsSome(Table(c).NORMAL_OCT16P)
           THEN /\ "NORMAL" \in DOMAIN Attributes(c)
                /\ Attributes(c)["NORMAL"].values =
                     [ binary |-> FeatureTableBinary,
                       byteOffset |-> Get(Table(c).NORMAL_OCT16P).byteOffset,
                       legacyType |-> "VEC2",
                       legacyComponentType |-> "UNSIGNED_BYTE",
                       numPoints |-> Table(c).POINTS_LENGTH,
                       mapped |-> << <<"AttributeCompression.octDecode">> >> ]
           ELSE /\ "NORMAL" \notin DOMAIN Attributes(c)
                /\ ~Stored(c, "NORMAL", "raw")
                /\ \/ PointCloudReturned(c)
                   \/ /\ ErrorMessage(c) = "Found BATCH_ID but no BATCH_LENGTH"
                      /\ IsSome(Table(c).BATCH_ID)
                      /\ ~IsSome(Table(c).BATCH_LENGTH)

\* A returned point cloud with normals decoded from NORMAL_OCT16P, after a
\* Draco result that held positions but no normals.
C14_Witness ==
  \E c \in DOMAIN call :
    /\ PointCloudReturned(c)
    /\ DracoHas(c, "POSITION")
    /\ ~DracoHas(c, "NORMAL")
    /\ ~IsSome(Table(c).NORMAL)
    /\ IsSome(Table(c).NORMAL_OCT16P)
    /\ Stored(c, "NORMAL", "raw")
    /\ ReturnedPointCloud(c).attributes["NORMAL"].values.mapped
         = << <<"AttributeCompression.octDecode">> >>

\* A returned point cloud without normals, of a table without NORMAL and
\* NORMAL_OCT16P.
C14_EmptyCase ==
  \E c \in DOMAIN call :
    /\ PointCloudReturned(c)
    /\ ~IsSome(Table(c).NORMAL)
    /\ ~IsSome(Table(c).NORMAL_OCT16P)
    /\ "NORMAL" \notin DOMAIN ReturnedPointCloud(c).attributes


\* ---------------------------------------------------------------------- C15

\* The feature table declares the 3DTILES_draco_point_compression extension.
DeclaresDraco(featureTable) == IsSome(featureTableExtensionOf(featureTable))

\* The calls of decodePointCloud that the call has made.
Invocations(c) ==
  Cardinality({i \in DOMAIN Run(c).log : Run(c).log[i].op = "decodePointCloud"})

\* The place of a store in the order position, normal, color, _FEATURE_ID_0,
\* (other attributes), global color, global position.
StoreRank(name) ==
  CASE name = "POSITION" -> 1
    [] name = "NORMAL" -> 2
    [] name = "COLOR_0" -> 3
    [] name = "_FEATURE_ID_0" -> 4
    [] name = "globalColor" -> 6
    [] name = "globalPosition" -> 7
    [] OTHER -> 5

\* The stores of the call into the six places that the order names.
NamedStores(c) ==
  { i \in DOMAIN Run(c).log :
      /\ Run(c).log[i].op # "decodePointCloud"
      /\ StoreRank(Run(c).log[i].name) # 5 }

\* The call threw because the set-up of the decoder failed.
SetUpFailed(c) == ErrorMessage(c) = "could not set up the decoder"

\* C15 as stated: a finished call has invoked decodePointCloud once if its
\* feature table declares the Draco extension and never otherwise, the
\* invocation precedes every store into the point cloud, and the stores
\* follow one another in the order position, normal, color, _FEATURE_ID_0,
\* global color, global position.
C15_Original ==
  \A c \in DOMAIN call :
    /\ Finished(c)
         => Invocations(c) = (IF DeclaresDraco(Table(c)) THEN 1 ELSE 0)
    /\ \A i \in DOMAIN Run(c).log :
         Run(c).log[i].op = "decodePointCloud" => i = 1
    /\ \A i, j \in NamedStores(c) :
         i < j => StoreRank(Run(c).log[i].name) <= StoreRank(Run(c).log[j].name)

\* The order of C15 as stated, alone.
C15_OriginalOrder ==
  \A c \in DOMAIN call :
    \A i, j \in NamedStores(c) :
      i < j => StoreRank(Run(c).log[i].name) <= StoreRank(Run(c).log[j].name)

\* C15: a call invokes decodePointCloud at most once; when it has finished
\* it has invoked it once if its feature table declares the Draco extension
\* and the set-up of the decoder succeeded, and never otherwise.  The
\* invocation precedes every store, and the point cloud is untouched while
\* the call waits for the decoder.  The stores of the Draco result come
\* first, in the order position, normal, color, _FEATURE_ID_0, batch table
\* properties; the stores of raw values follow, at most one for each place,
\* in the order position, normal, color, _FEATURE_ID_0, global color, global
\* position.
C15_DecodeOnceThenStoresInOrder ==
  \A c \in DOMAIN call :
    /\ Invocations(c) <= 1
    /\ Finished(c)
         => Invocations(c)
              = (IF DeclaresDraco(Table(c)) /\ ~SetUpFailed(c) THEN 1 ELSE 0)
    /\ \A i \in DOMAIN Run(c).log :
         Run(c).log[i].op = "decodePointCloud" => i = 1
    /\ call[c].pc \in {"start", "awaitDecoder"}
         => Run(c).pointCloud = NewPointCloud /\ Run(c).log = <<>>
    /\ \A i, j \in DOMAIN Run(c).log :
         ( /\ i < j
           /\ Run(c).log[i].op # "decodePointCloud"
           /\ Run(c).log[j].op # "decodePointCloud" )
         => LET first == Run(c).log[i]
                second == Run(c).log[j]
            IN  /\ first.from = "raw" => second.from = "raw"
                /\ first.from = second.from
                     => StoreRank(first.name) <= StoreRank(second.name)
                /\ (first.from = "raw" /\ second.from = "raw")
                     => StoreRank(first.name) < StoreRank(second.name)

\* A returned point cloud whose normals were stored from the Draco result
\* before its positions were stored from the raw POSITION, after the one
\* invocation of the decoder and before the global position.
C15_Witness ==
  \E c \in DOMAIN call :
    /\ PointCloudReturned(c)
    /\ DeclaresDraco(Table(c))
    /\ Invocations(c) = 1
    /\ Run(c).log[1].op = "decodePointCloud"
    /\ Run(c).log[2] = [op |-> "setNormals", name |-> "NORMAL", from |-> "draco"]
    /\ \E j \in DOMAIN Run(c).log :
         /\ j > 2
         /\ Run(c).log[j] = [op |-> "setPositions", name |-> "POSITION", from |-> "raw"]
    /\ Run(c).log[Len(Run(c).log)].name = "globalPosition"


\* ---------------------------------------------------------------------- C16

\* The set-ups of the decoder that are in the given states.
SetUpsIn(states) == {i \in DOMAIN decoder.setUps : decoder.setUps[i] \in states}

StoresOf(c, name) ==
  { i \in DOMAIN Run(c).log :
      Run(c).log[i].op # "decodePointCloud" /\ Run(c).log[i].name = name }

\* The store was carried out: the point cloud did not reject it.
CarriedOut(c, i) ==
  ~(ErrorKind(c) = "Error" /\ i = Len(Run(c).log))

\* The call stored the attribute and later stored it once more.
Replaced(c, name) ==
  \E i, j \in StoresOf(c, name) : i < j /\ CarriedOut(c, j)

\* The names of the attributes that the calls can store.
AttributeNames == Slots \cup BatchTablePropertyNames

\* C17: during one call of create the attributes of the point cloud only
\* grow: every attribute that was stored is still there, and no attribute is
\* stored a second time in place of what an earlier step stored, for every
\* feature table and every Draco result (POSITION, NORMAL, RGB, RGBA,
\* BATCH_ID, batch table properties).
C17_AttributesNeverReplaced ==
  \A c \in DOMAIN call :
    \A name \in AttributeNames :
      /\ ~Replaced(c, name)
      /\ (\E i \in StoresOf(c, name) : CarriedOut(c, i))
           => name \in DOMAIN Attributes(c)

\* From one step of a call to the next the attributes of its point cloud stay
\* as they are or grow.
C17_AttributesKeptBetweenSteps ==
  [][ \A c \in DOMAIN call :
        \A name \in DOMAIN Attributes(c) :
          /\ name \in DOMAIN Attributes(c)'
          /\ Attributes(c)'[name] = Attributes(c)[name] ]_vars

\* What holds of C17: only COLOR_0 is ever stored twice, and only when the
\* Draco result holds both RGB and RGBA.
C17_OnlyDracoColorsReplaced ==
  \A c \in DOMAIN call :
    \A name \in AttributeNames :
      Replaced(c, name)
        => /\ name = "COLOR_0"
           /\ DracoHas(c, "RGB")
           /\ DracoHas(c, "RGBA")
           /\ Attributes(c)["COLOR_0"].values.legacyType = "VEC4"

\* A returned point cloud whose COLOR_0, stored from the RGB of the Draco
\* result, was replaced by the RGBA of the Draco result.
C17_ReplacedColors ==
  \E c \in DOMAIN call :
    /\ PointCloudReturned(c)
    /\ Replaced(c, "COLOR_0")
    /\ ReturnedPointCloud(c).attributes["COLOR_0"].values.binary
         = DracoAttributeData("RGBA")


\* ---------------------------------------------------------------------- C18

\* The properties of the batch table's Draco extension that the Draco result
\* of the call holds.
DracoProperties(c) ==
  { n \in DOMAIN obtainDracoProperties(call[c].batchTable) : DracoHas(c, n) }

\* C18: after a step 1 that did not throw, for every property that the batch
\* table's Draco extension lists and the Draco result holds: if the batch
\* table entry of the property is a binary body reference, the point cloud
\* has an attribute of the property's name whose type and component type are
\* the translations of the type and the componentType that the batch table
\* declares for it; if the entry is an inline constant, there is no
\* attribute of that name.
C18_PropertyTypesFromBatchTable ==
  \A c \in DOMAIN call :
    Step1Completed(c)
    => \A n \in DracoProperties(c) :
         LET declared == call[c].batchTable.properties[n]
         IN  IF isBatchTableBinaryBodyReference(call[c].batchTable, n)
               THEN /\ n \in DOMAIN Attributes(c)
                    /\ Attributes(c)[n].type = convertLegacyTypeToType(declared.type)
                    /\ Attributes(c)[n].componentType =
                         convertLegacyComponentTypeToComponentType(declared.componentType)
               ELSE n \notin DOMAIN Attributes(c)

\* What holds of C18: the attribute has the translation of the declared
\* type, and the translation of the component datatype that the Draco result
\* reports for the property; an inline constant gets no attribute.
C18_ComponentTypeFromDracoResult ==
  \A c \in DOMAIN call :
    Step1Completed(c)
    => \A n \in DracoProperties(c) :
         LET declared == call[c].batchTable.properties[n]
             reported == Get(call[c].dracoDecoderResult)[n].attributeInfo.componentDatatype
         IN  IF isBatchTableBinaryBodyReference(call[c].batchTable, n)
               THEN /\ n \in DOMAIN Attributes(c)
                    /\ Attributes(c)[n].type = convertLegacyTypeToType(declared.type)
                    /\ Attributes(c)[n].componentType =
                         convertLegacyComponentTypeToComponentType(reported)
               ELSE n \notin DOMAIN Attributes(c)

\* A returned point cloud with the attribute intensity of component type
\* UINT16, for a batch table that declares intensity as FLOAT.
C18_ReportedDatatypeUsed ==
  \E c \in DOMAIN call :
    /\ PointCloudReturned(c)
    /\ "intensity" \in DracoProperties(c)
    /\ call[c].batchTable.properties["intensity"].componentType = "FLOAT"
    /\ ReturnedPointCloud(c).attributes["intensity"].componentType = "UINT16"
    /\ DracoHas(c, "classification")
    /\ "classification" \notin DOMAIN ReturnedPointCloud(c).attributes


\* ---------------------------------------------------------------------- C19

\* The names of the Draco result of the call other than the standard ones.
OtherReturnedNames(c) ==
  IF IsSome(call[c].dracoDecoderResult)
    THEN (DOMAIN Get(call[c].dracoDecoderResult)) \ StandardDracoNames
    ELSE {}

C19_UnlistedCase ==
  \E c \in DOMAIN call :
    /\ PointCloudReturned(c)
    /\ DracoHas(c, "intensity")
    /\ "intensity" \notin DOMAIN obtainDracoProperties(call[c].batchTable)
    /\ "intensity" \notin DOMAIN ReturnedPointCloud(c).attributes


\* ---------------------------------------------------------------------- C20

\* The functions of the raw steps of create, in the order of the steps.
StepFunctions ==
  << "createPositions", "createNormals", "createNormalizedLinearColors",
     "createBatchIds", "createGlobalNormalizedLinearColor", "obtainGlobalPosition" >>

\* The call has called the function of the given raw step.
StepRan(c, k) == \E read \in Run(c).reads : read[1] = StepFunctions[k]

\* The raw step in which the call threw its format error.
FailedStep(c) ==
  IF ErrorMessage(c) = "Found BATCH_ID but no BATCH_LENGTH" THEN 4 ELSE 1

\* C20: a call of create ends in one of two ways.  Either it returns the
\* point cloud after its last step, the store of the global position, with
\* no error; or it throws: the call is rejected with the error of the step
\* that threw (the decoder set-up or decodePointCloud, a store of step 1,
\* createPositions or createBatchIds), no step after that one has run or
\* stored anything, and the caller gets no point cloud, however much of it
\* was populated before the error.
C20_ReturnsAllOrFails ==
  \A c \in DOMAIN call :
    /\ ~Finished(c) => ~IsSome(call[c].result) /\ ~Failed(Run(c))
    /\ call[c].pc = "done"
         => /\ ~Failed(Run(c))
            /\ call[c].result = Some(Run(c).pointCloud)
            /\ Run(c).log[Len(Run(c).log)].op = "setGlobalPosition"
            /\ StepRan(c, 6)
    /\ call[c].pc = "failed"
         => /\ Failed(Run(c))
            /\ ~IsSome(call[c].result)
            /\ ErrorKind(c) \in {"DracoError", "Error", "TileFormatError"}
            /\ ErrorKind(c) = "DracoError"
                 => /\ Run(c).pointCloud = NewPointCloud
                    /\ Run(c).reads = {}
                    /\ \A i \in DOMAIN Run(c).log : Run(c).log[i].op = "decodePointCloud"
            /\ ErrorKind(c) = "Error"
                 => /\ Run(c).reads = {}
                    /\ \A i \in DOMAIN Run(c).log : Run(c).log[i].from = "draco"
            /\ ErrorKind(c) = "TileFormatError"
                 => /\ StepRan(c, FailedStep(c))
                    /\ \A k \in DOMAIN StepFunctions :
                         k > FailedStep(c) => ~StepRan(c, k)
                    /\ \A i \in DOMAIN Run(c).log :
                         Run(c).log[i].from = "raw"
                           => StoreRank(Run(c).log[i].name) < StoreRank(
                                IF FailedStep(c) = 4 THEN "_FEATURE_ID_0" ELSE "POSITION")
            /\ Run(c).pointCloud.globalPosition = None
            /\ ~Stored(c, "globalPosition", "raw")

\* A call that threw the format error of createBatchIds after it had stored
\* positions and colors: it returned no point cloud and set no global color
\* or position.
C20_Witness ==
  \E c \in DOMAIN call :
    /\ call[c].pc = "failed"
    /\ ErrorMessage(c) = "Found BATCH_ID but no BATCH_LENGTH"
    /\ {"POSITION", "COLOR_0"} \subseteq DOMAIN Attributes(c)
    /\ IsSome(Table(c).CONSTANT_RGBA)
    /\ IsSome(Table(c).RTC_CENTER)
    /\ ~IsSome(call[c].result)
    /\ Run(c).pointCloud.globalPosition = None

\* A call that threw because decodePointCloud rejected the data.
C20_DecoderErrorCase ==
  \E c \in DOMAIN call :
    /\ call[c].pc = "failed"
    /\ ErrorMessage(c) = "could not decode"
    /\ IsSome(Table(c).POSITION)
    /\ ~IsSome(call[c].result)

\* A call that threw the format error of createPositions.
C20_PositionErrorCase ==
  \E c \in DOMAIN call :
    /\ call[c].pc = "failed"
    /\ PositionError(c)
    /\ IsSome(Table(c).NORMAL)
    /\ Attributes(c) = NewPointCloud.attributes


\* ---------------------------------------------------------------------- C21

\* The number of elements of an iterable: that of the view it was made of,
\* with or without a function mapped over it.
ElementCount(iterable) == iterable.numPoints

\* The fields that create needs are there: a source of positions, and
\* BATCH_LENGTH if the raw BATCH_ID is decoded.
RequiredFieldsPresent(c) ==
  /\ \/ DracoHas(c, "POSITION")
     \/ IsSome(Table(c).POSITION)
     \/ IsSome(Table(c).POSITION_QUANTIZED) /\ Quantized(Table(c))
  /\ \/ DracoHas(c, "BATCH_ID")
     \/ ~IsSome(Table(c).BATCH_ID)
     \/ IsSome(Table(c).BATCH_LENGTH)

\* C21: a call with POINTS_LENGTH = 0 whose required fields are present (and
\* whose step 1 did not throw) returns a point cloud.  Every attribute of
\* it has zero elements; it has positions, and normals, colors and
\* _FEATURE_ID_0 when the feature table has a field for them.  An attribute
\* of zero elements counts as present: getAttributeValues returns it, no
\* slot is stored a second time from a raw field, and with colors of zero
\* points CONSTANT_RGBA is not consulted and the global color stays unset.
C21_ZeroPoints ==
  \A c \in DOMAIN call :
    ( /\ Table(c).POINTS_LENGTH = 0
      /\ Step1Completed(c)
      /\ RequiredFieldsPresent(c) )
    => /\ PointCloudReturned(c)
       /\ \A n \in DOMAIN ReturnedPointCloud(c).attributes :
            /\ ElementCount(ReturnedPointCloud(c).attributes[n].values) = 0
            /\ IsSome(getAttributeValues(ReturnedPointCloud(c), n))
       /\ "POSITION" \in DOMAIN ReturnedPointCloud(c).attributes
       /\ (IsSome(Table(c).NORMAL) \/ IsSome(Table(c).NORMAL_OCT16P))
            => "NORMAL" \in DOMAIN ReturnedPointCloud(c).attributes
       /\ (IsSome(Table(c).RGBA) \/ IsSome(Table(c).RGB) \/ IsSome(Table(c).RGB565))
            => "COLOR_0" \in DOMAIN ReturnedPointCloud(c).attributes
       /\ (IsSome(Table(c).BATCH_ID) /\ IsSome(Table(c).BATCH_LENGTH))
            => "_FEATURE_ID_0" \in DOMAIN ReturnedPointCloud(c).attributes
       /\ \A slot \in Slots :
            Stored(c, slot, "draco") => ~Stored(c, slot, "raw")
       /\ "COLOR_0" \in DOMAIN ReturnedPointCloud(c).attributes
            => /\ ~IsSome(ReturnedPointCloud(c).globalColor)
               /\ ~Stored(c, "globalColor", "raw")

\* A returned point cloud of zero points with positions, normals, colors and
\* _FEATURE_ID_0 of zero elements each, of a table that has CONSTANT_RGBA
\* too: the global color is not set.
C21_Witness ==
  \E c \in DOMAIN call :
    /\ Table(c).POINTS_LENGTH = 0
    /\ PointCloudReturned(c)
    /\ IsSome(Table(c).CONSTANT_RGBA)
    /\ DOMAIN ReturnedPointCloud(c).attributes = Slots
    /\ \A n \in Slots : ElementCount(ReturnedPointCloud(c).attributes[n].values) = 0
    /\ ~IsSome(ReturnedPointCloud(c).globalColor)


\* ---------------------------------------------------------------------- C22

\* C22: no step of create changes its inputs: the feature table, with the
\* properties of its Draco extension, and the batch table of a call are after
\* every step what they were before it, whether the call goes on, returns or
\* throws; and the properties handed to the decoder are a map of their own,
\* the union of those of the feature table's and the batch table's
\* extensions.
C22_InputsUnchanged ==
  /\ [][ \A c \in DOMAIN call :
           /\ call'[c].featureTable = call[c].featureTable
           /\ call'[c].batchTable = call[c].batchTable ]_vars
  /\ [](\A c \in DOMAIN call :
          call[c].pc \notin {"start"} /\ DeclaresDraco(Table(c))
            => DOMAIN call[c].allProperties
                 = (DOMAIN Get(featureTableExtensionOf(Table(c))).properties)
                     \cup (DOMAIN obtainDracoProperties(call[c].batchTable)))

\* A call has returned after it handed the decoder the properties POSITION,
\* intensity and classification; its feature table still lists POSITION
\* alone.
C22_Witness ==
  \E c \in DOMAIN call :
    /\ Finished(c)
    /\ Invocations(c) = 1
    /\ DOMAIN call[c].allProperties = {"POSITION", "intensity", "classification"}
    /\ DOMAIN Get(featureTableExtensionOf(Table(c))).properties = {"POSITION"}
    /\ DOMAIN obtainDracoProperties(call[c].batchTable) = BatchTablePropertyNames


\* ---------------------------------------------------------------------- C23

\* What a call of create with these arguments can have done when it ends,
\* computed from the arguments alone: for each outcome of the decoder and of
\* the point cloud's setters, the run of create from a new point cloud.
AloneRuns(featureTable, batchTable) ==
  LET featureTableExtension == featureTableExtensionOf(featureTable)
      decoded == Logged(NewRun, "decodePointCloud", "", "draco")
  IN  IF ~IsSome(featureTableExtension)
        THEN { createBody(NewRun, featureTable, batchTable, None, overwrite) :
                 overwrite \in BOOLEAN }
        ELSE { Throw(NewRun, "DracoError", "could not set up the decoder"),
               Throw(decoded, "DracoError", "could not decode") }
             \cup { createBody(decoded, featureTable, batchTable,
                               Some(DracoDecoderResultOf(names, propertyDatatype)),
                               overwrite) :
                      names \in SUBSET (DOMAIN allPropertiesOf(Get(featureTableExtension),
                                                              batchTable)),
                      propertyDatatype \in DracoPropertyDatatypes,
                      overwrite \in BOOLEAN }

\* C23: of calls of create that run at the same time, interleaved at the
\* awaited decoder, each ends as it can end when it runs alone: what it did
\* and stored is a run of create from a new point cloud on its own
\* arguments and its own Draco result, and it returns that point cloud (or
\* throws).  A step of one call changes nothing of another call, its point
\* cloud included.
C23_ConcurrentCallsIndependent ==
  /\ [](\A c \in DOMAIN call :
          Finished(c)
            => /\ Run(c) \in AloneRuns(Table(c), call[c].batchTable)
               /\ IsSome(call[c].dracoDecoderResult)
                    => \E overwrite \in BOOLEAN :
                         Run(c) = createBody(Logged(NewRun, "decodePointCloud", "", "draco"),
                                             Table(c), call[c].batchTable,
                                             call[c].dracoDecoderResult, overwrite)
               /\ call[c].result
                    = (IF Failed(Run(c)) THEN None ELSE Some(Run(c).pointCloud)))
  /\ [][ \A c, d \in DOMAIN call :
           (c # d /\ call'[c] # call[c]) => call'[d] = call[d] ]_vars

\* Two calls that were under way at the same time, on the same feature
\* table, have returned different point clouds: one has the positions of
\* its Draco result, the other those of its raw field.
C23_Witness ==
  \E c, d \in DOMAIN call :
    /\ c # d
    /\ call[c].overlapped /\ call[d].overlapped
    /\ call[c].setUp = call[d].setUp /\ call[c].setUp # 0
    /\ Table(c) = Table(d)
    /\ PointCloudReturned(c) /\ PointCloudReturned(d)
    /\ Stored(c, "POSITION", "draco")
    /\ Stored(d, "POSITION", "raw")
    /\ ReturnedPointCloud(c) # ReturnedPointCloud(d)


\* ---------------------------------------------------------------------- C24

\* The colors of the returned point cloud are those of the field RGBA.
ColorsFromRgba(c) ==
  /\ "COLOR_0" \in DOMAIN ReturnedPointCloud(c).attributes
  /\ IsSome(Table(c).RGBA)
  /\ ReturnedPointCloud(c).attributes["COLOR_0"].values.byteOffset
       = Get(Table(c).RGBA).byteOffset
  /\ ReturnedPointCloud(c).attributes["COLOR_0"].values.legacyType = "VEC4"

\* The color of the returned point cloud is the global color of CONSTANT_RGBA.
ColorFromConstantRgba(c) ==
  /\ "COLOR_0" \notin DOMAIN ReturnedPointCloud(c).attributes
  /\ IsSome(Table(c).CONSTANT_RGBA)
  /\ IsSome(ReturnedPointCloud(c).globalColor)

\* C24: mayRequireAlpha answers true exactly when the feature table has
\* RGBA, or has CONSTANT_RGBA and neither RGB nor RGB565.  For a feature
\* table without the Draco extension of which create returns a point cloud,
\* the answer is true exactly when the colors of that point cloud come from
\* RGBA or its global color from CONSTANT_RGBA.
C24_MayRequireAlpha ==
  \A c \in DOMAIN call :
    IsSome(call[c].alpha)
    => /\ Get(call[c].alpha)
            <=> \/ IsSome(Table(c).RGBA)
                \/ /\ ~IsSome(Table(c).RGB)
                   /\ ~IsSome(Table(c).RGB565)
                   /\ IsSome(Table(c).CONSTANT_RGBA)
       /\ (PointCloudReturned(c) /\ ~DeclaresDraco(Table(c)))
            => (Get(call[c].alpha) <=> (ColorsFromRgba(c) \/ ColorFromConstantRgba(c)))

\* mayRequireAlpha has answered false for a table with RGB565 and
\* CONSTANT_RGBA, of which create has returned the colors of RGB565 and no
\* global color.
C24_Witness ==
  \E c \in DOMAIN call :
    /\ call[c].alpha = Some(FALSE)
    /\ PointCloudReturned(c)
    /\ ~DeclaresDraco(Table(c))
    /\ ~IsSome(Table(c).RGBA) /\ ~IsSome(Table(c).RGB)
    /\ IsSome(Table(c).RGB565) /\ IsSome(Table(c).CONSTANT_RGBA)
    /\ "COLOR_0" \in DOMAIN ReturnedPointCloud(c).attributes
    /\ ~IsSome(ReturnedPointCloud(c).globalColor)

\* mayRequireAlpha has answered true for a table with CONSTANT_RGBA alone, of
\* which create has returned the global color.
C24_ConstantCase ==
  \E c \in DOMAIN call :
    /\ call[c].alpha = Some(TRUE)
    /\ PointCloudReturned(c)
    /\ ColorFromConstantRgba(c)

\* ------------------------------------------ vocabulary, TilesetSourceFs

\* The calls made on the source so far.
SourceCalls == source.calls

Threw(sourceCall) == IsSome(sourceCall.error)

\* The directory on which the source is opened after its first n calls, by
\* the protocol: that of the last open that returned, unless a close has
\* returned since; none before the first open.
RECURSIVE OpenedAfter(_)
OpenedAfter(n) ==
  IF n = 0
    THEN None
    ELSE IF SourceCalls[n].op = "open" /\ ~Threw(SourceCalls[n])
      THEN SourceCalls[n].argument
      ELSE IF SourceCalls[n].op = "close" /\ ~Threw(SourceCalls[n])
        THEN None
        ELSE OpenedAfter(n - 1)

\* fullInputName after the first n calls.
FullInputNameAfter(n) == IF n = 0 THEN None ELSE SourceCalls[n].fullInputName

\* The protocol of the source, for the n-th call.
FollowsProtocol(n) ==
  LET sourceCall == SourceCalls[n]
      opened == IsSome(OpenedAfter(n - 1))
  IN  /\ (sourceCall.op = "open" /\ opened)
           => /\ sourceCall.error = Some(AlreadyOpened)
              /\ FullInputNameAfter(n) = OpenedAfter(n - 1)
      /\ (sourceCall.op = "open" /\ ~opened)
           => ~Threw(sourceCall)
      /\ (sourceCall.op \in {"getKeys", "getValue", "close"} /\ ~opened)
           => /\ Threw(sourceCall)
              /\ FullInputNameAfter(n) = FullInputNameAfter(n - 1)

\* No call so far has passed the empty string as a directory name.
NoEmptyName == \A n \in DOMAIN SourceCalls : SourceCalls[n].argument # Some("")

\* ---------------------------------------------------------------------- C25

\* C25, as stated: over any sequence of calls, open on an already opened
\* source throws 'Source already opened' and keeps the opened directory;
\* getKeys, getValue and close on a source that is not opened throw and leave
\* the state unchanged; a source that is not opened (never opened, or
\* closed) can be opened.
C25_OpenCloseProtocol ==
  \A n \in DOMAIN SourceCalls : FollowsProtocol(n)

\* C25, for directory names that are not empty: every call follows the
\* protocol.
C25_ProtocolForNonEmptyNames ==
  NoEmptyName => \A n \in DOMAIN SourceCalls : FollowsProtocol(n)

\* C25: a source is closed and opened again, and closed twice in a row.
C25_Witness ==
  /\ Len(SourceCalls) = 3
  /\ SourceCalls[1].op = "open" /\ SourceCalls[1].argument = Some("data")
  /\ SourceCalls[2].op = "close" /\ ~Threw(SourceCalls[2])
  /\ SourceCalls[3].op = "close" /\ Threw(SourceCalls[3])

\* C25: open("") has returned, and the next open returns too instead of
\* throwing 'Source already opened'.
C25_OpenedTwice ==
  /\ Len(SourceCalls) >= 2
  /\ SourceCalls[1].op = "open" /\ SourceCalls[1].argument = Some("")
  /\ ~Threw(SourceCalls[1])
  /\ SourceCalls[2].op = "open" /\ ~Threw(SourceCalls[2])

\* ---------------------------------------------------------------------- C26

\* C26, as stated: after an open that returned, for every directory name, a
\* following getKeys, getValue or close does not throw 'Source is not
\* opened', and a following open throws 'Source already opened'.
C26_OpenedAfterOpen ==
  \A n \in DOMAIN SourceCalls :
    (n > 1 /\ SourceCalls[n - 1].op = "open" /\ ~Threw(SourceCalls[n - 1]))
      => /\ SourceCalls[n].op \in {"getKeys", "getValue", "close"}
              => SourceCalls[n].error # Some(NotOpened)
         /\ SourceCalls[n].op = "open"
              => SourceCalls[n].error = Some(AlreadyOpened)

\* C26, for directory names that are not empty.
C26_OpenedAfterOpenOfNonEmptyName ==
  NoEmptyName => C26_OpenedAfterOpen

\* C26: open("") has returned and the getKeys that follows throws 'Source is
\* not opened'.
C26_NotOpenedAfterOpen ==
  /\ Len(SourceCalls) >= 2
  /\ SourceCalls[1].op = "open" /\ SourceCalls[1].argument = Some("")
  /\ ~Threw(SourceCalls[1])
  /\ SourceCalls[2].op = "getKeys" /\ SourceCalls[2].error = Some(NotOpened)

\* ------------------------------------ vocabulary, TilesetObjectUpgrader

\* The history of the upgrader: Steps[1] is the tileset as constructed,
\* Steps[k + 1] the tileset and the log after the k-th step carried out.
Steps == upgrader.steps

UpgradeOptions == upgrader.upgradeOptions

StepOrder == <<"assetVersion", "refineCase", "contentUrlToUri", "extensionDeclarations">>

\* The step that is carried out as the k-th one.
StepNumber(k) == ((k - 1) % Len(StepOrder)) + 1

Header(step) ==
  CASE step = "assetVersion" -> <<"Upgrading asset version number">>
    [] step = "refineCase" -> <<"Upgrading refine to be in uppercase">>
    [] step = "contentUrlToUri" -> <<"Upgrading content.url to content.uri">>
    [] step = "extensionDeclarations" -> <<"Upgrading extension declarations">>

Headers == { Header(StepOrder[i]) : i \in DOMAIN StepOrder }

\* The option of the step is set (is not falsy).
StepEnabled(step) ==
  CASE step = "assetVersion" ->
         /\ UpgradeOptions.upgradedAssetVersionNumber # None
         /\ UpgradeOptions.upgradedAssetVersionNumber # Some("")
    [] step = "refineCase" -> UpgradeOptions.upgradeRefineCase
    [] step = "contentUrlToUri" -> UpgradeOptions.upgradeContentUrlToUri
    [] step = "extensionDeclarations" ->
         UpgradeOptions.upgradeContentGltfExtensionDeclarations

\* The number of applications of upgradeTilesetObject that have returned.
Applied == (Len(Steps) - 1) \div Len(StepOrder)

\* The tileset after the a-th application (0: as constructed).
TilesetAfter(a) == Steps[1 + a * Len(StepOrder)].tileset

\* What the k-th step carried out has added to the log.
LoggedByStep(k) == SubSeq(Steps[k + 1].log, Len(Steps[k].log) + 1, Len(Steps[k + 1].log))

\* ---------------------------------------------------------------------- C27

\* C27: the steps of upgradeTilesetObject are carried out in the order asset
\* version, refine case, content url-to-uri, extension declarations; an
\* enabled step keeps what was logged, logs its header first and no other
\* header; a step whose option is falsy leaves the tileset and the log as
\* they were; with all options off the tileset is the one constructed and
\* nothing is logged.
C27_StepsInOrderWithHeaders ==
  /\ \A k \in 1..(Len(Steps) - 1) :
       LET step == Steps[k + 1].step
       IN  /\ step = StepOrder[StepNumber(k)]
           /\ SubSeq(Steps[k + 1].log, 1, Len(Steps[k].log)) = Steps[k].log
           /\ StepEnabled(step)
                => /\ LoggedByStep(k) # <<>>
                   /\ LoggedByStep(k)[1] = Header(step)
                   /\ \A i \in 2..Len(LoggedByStep(k)) : LoggedByStep(k)[i] \notin Headers
           /\ ~StepEnabled(step)
                => /\ Steps[k + 1].tileset = Steps[k].tileset
                   /\ LoggedByStep(k) = <<>>
  /\ upgrader.tileset = Steps[Len(Steps)].tileset
  /\ upgrader.log = Steps[Len(Steps)].log
  /\ (\A i \in DOMAIN StepOrder : ~StepEnabled(StepOrder[i]))
       => /\ upgrader.tileset = Steps[1].tileset
          /\ upgrader.log = <<>>

\* C27: an application with all four steps enabled has returned, each step
\* having changed the tileset.
C27_Witness ==
  /\ Applied >= 1
  /\ \A i \in DOMAIN StepOrder : StepEnabled(StepOrder[i])
  /\ \A k \in 1..Len(StepOrder) : Steps[k + 1].tileset # Steps[k].tileset
  /\ [ k \in 1..Len(StepOrder) |-> LoggedByStep(k)[1] ]
       = [ i \in DOMAIN StepOrder |-> Header(StepOrder[i]) ]

\* C27: an application with all options off has returned on a tileset that
\* the steps would change.
C27_AllOffCase ==
  /\ Applied >= 1
  /\ \A i \in DOMAIN StepOrder : ~StepEnabled(StepOrder[i])
  /\ Steps[1].tileset.asset.version = "1.0"
  /\ Steps[1].tileset.root.refine = Some("add")
  /\ IsSome(Steps[1].tileset.extensionsUsed)

\* ---------------------------------------------------------------------- C28

\* The paths of the tiles of the explicit hierarchy below a tile.
RECURSIVE TilePaths(_)
TilePaths(tile) ==
  {<<>>} \cup
    IF IsSome(tile.children)
      THEN UNION { { <<k>> \o tilePath : tilePath \in TilePaths(Get(tile.children)[k]) } :
                     k \in DOMAIN Get(tile.children) }
      ELSE {}

\* The places of the contents of a hierarchy: tile.content (index 0) and the
\* entries of tile.contents of every tile.
ContentPlaces(root) ==
  { <<tilePath, 0>> : tilePath \in { p \in TilePaths(root) : IsSome(TileAt(root, p).content) } }
    \cup
  UNION { { <<tilePath, i>> : i \in DOMAIN Get(TileAt(root, tilePath).contents) } :
            tilePath \in { p \in TilePaths(root) : IsSome(TileAt(root, p).contents) } }

ContentAt(root, place) ==
  IF place[2] = 0
    THEN Get(TileAt(root, place[1]).content)
    ELSE Get(TileAt(root, place[1]).contents)[place[2]]

\* C28, as stated: with upgradeContentUrlToUri enabled, after
\* upgradeTilesetObject every content that had no uri but a url has the old
\* url as its uri and no url, and every content that had a uri is unchanged.
C28_UrlRenamedToUri ==
  (Applied >= 1 /\ UpgradeOptions.upgradeContentUrlToUri)
    => \A place \in ContentPlaces(TilesetAfter(0).root) :
         LET old == ContentAt(TilesetAfter(0).root, place)
             new == ContentAt(TilesetAfter(1).root, place)
         IN  /\ (~IsSome(old.uri) /\ IsSome(old.url))
                  => (new.uri = old.url /\ ~IsSome(new.url))
             /\ IsSome(old.uri) => new = old

\* C28, for uri and url that are not empty strings: a content without uri
\* that had a url has it as its uri and has no url; a content with a uri is
\* unchanged, its url included; a content with neither is unchanged.
C28_NonEmptyUrlRenamedToUri ==
  (Applied >= 1 /\ UpgradeOptions.upgradeContentUrlToUri)
    => \A place \in ContentPlaces(TilesetAfter(0).root) :
         LET old == ContentAt(TilesetAfter(0).root, place)
             new == ContentAt(TilesetAfter(1).root, place)
         IN  (old.uri # Some("") /\ old.url # Some(""))
               => /\ (~IsSome(old.uri) /\ IsSome(old.url))
                       => (new.uri = old.url /\ ~IsSome(new.url))
                  /\ IsSome(old.uri) => new = old
                  /\ (~IsSome(old.uri) /\ ~IsSome(old.url)) => new = old

\* C28: urls have been renamed in tile.content, in tile.contents and in the
\* content of a child tile, next to a content that had both uri and url.
C28_Witness ==
  /\ Applied >= 1
  /\ UpgradeOptions.upgradeContentUrlToUri
  /\ \E place \in ContentPlaces(TilesetAfter(0).root) :
       /\ place[2] = 0 /\ place[1] = <<>>
       /\ ContentAt(TilesetAfter(0).root, place) = Content(None, Some("b.b3dm"))
       /\ ContentAt(TilesetAfter(1).root, place) = Content(Some("b.b3dm"), None)
  /\ \E place \in ContentPlaces(TilesetAfter(0).root) :
       /\ place[2] = 1
       /\ ContentAt(TilesetAfter(0).root, place) = Content(Some("a.b3dm"), Some("b.b3dm"))
  /\ \E place \in ContentPlaces(TilesetAfter(0).root) :
       /\ place[2] = 2
       /\ ContentAt(TilesetAfter(0).root, place) = Content(None, Some("b.b3dm"))
       /\ ContentAt(TilesetAfter(1).root, place) = Content(Some("b.b3dm"), None)
  /\ \E place \in ContentPlaces(TilesetAfter(0).root) :
       /\ place[1] # <<>>
       /\ ContentAt(TilesetAfter(0).root, place) = Content(None, Some("b.b3dm"))
       /\ ContentAt(TilesetAfter(1).root, place) = Content(Some("b.b3dm"), None)

\* C28: a content without uri whose url is the empty string still has no uri
\* and has its url after the upgrade.
C28_EmptyUrlKept ==
  /\ Applied >= 1
  /\ UpgradeOptions.upgradeContentUrlToUri
  /\ \E place \in ContentPlaces(TilesetAfter(0).root) :
       /\ ContentAt(TilesetAfter(0).root, place) = Content(None, Some(""))
       /\ ContentAt(TilesetAfter(1).root, place) = Content(None, Some(""))

\* C28: a content whose uri is the empty string has lost it and its url to
\* the upgrade.
C28_EmptyUriReplaced ==
  /\ Applied >= 1
  /\ UpgradeOptions.upgradeContentUrlToUri
  /\ \E place \in ContentPlaces(TilesetAfter(0).root) :
       /\ ContentAt(TilesetAfter(0).root, place) = Content(Some(""), Some("b.b3dm"))
       /\ ContentAt(TilesetAfter(1).root, place) = Content(Some("b.b3dm"), None)

\* ---------------------------------------------------------------------- C29

\* The uppercase form of a value of refine.
UppercaseForm(value) ==
  IF value \in {"add", "Add", "ADD"}
    THEN "ADD"
    ELSE IF value \in {"replace", "REPLACE"} THEN "REPLACE" ELSE value

\* The properties of a tile itself, without the tiles below it.
OwnProperties(tile) == [tile EXCEPT !.children = None]

\* The messages of the refine step about a renamed value.
RenameMessages(log) ==
  { i \in DOMAIN log : log[i][1] = "  Renaming 'refine' value from" }

\* C29: with upgradeRefineCase enabled, after upgradeTilesetObject the refine
\* of every tile that defines one is the uppercase form of its previous
\* value; a tile whose refine was ADD or REPLACE and a tile without refine is
\* as it was before the refine step, and no rename message is logged for it:
\* every rename message names a previous value other than ADD and REPLACE,
\* and there are at most as many as tiles that defined such a value.
C29_RefineInUppercase ==
  (Applied >= 1 /\ UpgradeOptions.upgradeRefineCase)
    => LET old == TilesetAfter(0).root
           new == TilesetAfter(1).root
           renamed == LoggedByStep(2)
       IN  /\ \A tilePath \in TilePaths(old) :
                LET refine == TileAt(old, tilePath).refine
                IN  /\ IsSome(refine)
                         => TileAt(new, tilePath).refine = Some(UppercaseForm(Get(refine)))
                    /\ refine \in {None, Some("ADD"), Some("REPLACE")}
                         => /\ OwnProperties(TileAt(Steps[3].tileset.root, tilePath))
                                 = OwnProperties(TileAt(Steps[2].tileset.root, tilePath))
                            /\ TileAt(new, tilePath).refine = refine
           /\ \A i \in RenameMessages(renamed) : renamed[i][2] \notin {"ADD", "REPLACE"}
           /\ Cardinality(RenameMessages(renamed))
                <= Cardinality({ tilePath \in TilePaths(old) :
                                   TileAt(old, tilePath).refine
                                     \notin {None, Some("ADD"), Some("REPLACE")} })

\* C29: the root had a refine in lowercase and is renamed, next to a child
\* in lowercase, a child with REPLACE and no message for it.
C29_Witness ==
  /\ Applied >= 1
  /\ UpgradeOptions.upgradeRefineCase
  /\ TilesetAfter(0).root.refine = Some("replace")
  /\ TilesetAfter(1).root.refine = Some("REPLACE")
  /\ IsSome(TilesetAfter(0).root.children)
  /\ Len(Get(TilesetAfter(0).root.children)) = 2
  /\ Get(TilesetAfter(0).root.children)[1].refine = Some("add")
  /\ Get(TilesetAfter(1).root.children)[1].refine = Some("ADD")
  /\ Get(TilesetAfter(0).root.children)[2].refine = Some("REPLACE")
  /\ Cardinality(RenameMessages(LoggedByStep(2))) = 2

\* ---------------------------------------------------------------------- C30

\* C30: a second application of upgradeTilesetObject, with the same options,
\* leaves the whole tileset, with its asset version, the refine of every
\* tile and the uri and url of every content, as the first application
\* left it.
C30_Idempotent ==
  \A a \in 2..Applied : TilesetAfter(a) = TilesetAfter(a - 1)

\* C30: the second application has returned, the first one having changed
\* the asset version, a refine value, a content and the extensions.
C30_Witness ==
  /\ Applied >= 2
  /\ TilesetAfter(1).asset.version # TilesetAfter(0).asset.version
  /\ TilesetAfter(1).root.refine = Some("ADD") /\ TilesetAfter(0).root.refine = Some("add")
  /\ TilesetAfter(0).root.content = Some(Content(None, Some("b.b3dm")))
  /\ TilesetAfter(1).root.content = Some(Content(Some("b.b3dm"), None))
  /\ TilesetAfter(1).extensionsUsed # TilesetAfter(0).extensionsUsed

====
